---- MODULE Spec2Model ----
(***************************************************************************)
(* Pipoo desktop assistant: the reminder notifier                          *)
(* (src/src/reminder_notifier.py) and the automation handler               *)
(* (src/src/automation_handler.py) as state machines.                      *)
(*                                                                         *)
(* Text is kept as TLA+ strings; Python's substring test, str.replace,     *)
(* str.strip, str.lower and the regular expressions of the source are      *)
(* computed character by character.  Points in time are whole seconds      *)
(* counted from midnight of day 0.  Response texts are the source's        *)
(* f-strings without their emoji prefix.                                   *)
(***************************************************************************)
EXTENDS Integers, Sequences, FiniteSets, TLC

(***************************************************************************)
(* Bounds of the model.                                                    *)
(***************************************************************************)
MaxReminders == 2      \* reminders ever armed in the notifier
MaxThreads == 2        \* monitor threads ever created by start()
MaxTime == 3           \* seconds the clock runs
StartTime == 36000     \* second of day 0 at which the run begins (10:00:00)

\* Day 0 of the time line: Wednesday 1 January 2025 (weekday() counts from Monday).
Day0 == [year |-> 2025, month |-> 1, day |-> 1, weekday |-> 2]

(***************************************************************************)
(* Inputs: what the user says to the assistant, and the time phrases and   *)
(* contents handed to the notifier.                                        *)
(***************************************************************************)
Utterances == {
    "  Open Chrome please ", "open notepad and write hello",
    "open my documents folder", "Open the Downloads directory",
    "search for cute cats", "note my search",
    "play jazz on spotify", "display my notes", "play",
    "create a note saying buy milk",
    "remember that my appointment is at 3 PM", "add note hi",
    "add note hey please",
    "create a note saying clear the table", "show my notes",
    "delete note 1", "delete note 2", "delete note 3",
    "delete note 0", "clear notes",
    "remind me to call dentist in 2 hours",
    "set a reminder to take medicine at 8 PM",
    "show my reminders", "delete reminder 1", "delete reminder 5",
    "clear all reminders",
    "volume up", "brightness up", "show folder",
    "what time is it", "which day is today", "what is the weather" }

\* utterances of the note category that hold the keywords of more than one
\* of its sub-behaviours
NoteUtterances == {
    "create a note saying buy milk", "create a note saying clear the table",
    "add a note to read the book", "delete note 1 and clear the rest",
    "delete all notes", "clear and show my notes", "show my notes" }

Contents == {"call mom"}
WhenPhrases == {"in 3 seconds", "in 0 seconds", "soon"}

\* time phrases handed to _parse_time on its own
ParsePhrases == {
    "in 1 second", "in 45 seconds", "In 5 Minutes", "in 10minutes",
    "in 2 hours", "in 1 day", "in 3 days", "in 0 minutes", "in 3000000 days",
    "at 9", "at 10:00", "at 10 am", "at 10:01", "at 3 pm", "at 12 am",
    "at 12:30 pm", "at 25",
    "monday", "on wednesday", "sunday", "friday at 5pm", "wednesday at 9 am",
    "tomorrow", "tomorrow at 9 am", "tomorrow at 5pm" }

\* the moments they are parsed at: Wednesday 10:00:00, 10:00:30 and
\* 23:59:59, Friday 17:00:00, Sunday 00:00:00
References == {36000, 36030, 86399, 234000, 345600}

(***************************************************************************)
(* Strings.                                                                *)
(***************************************************************************)
Whitespace == {" ", "\t", "\n"}
Digits == {"0", "1", "2", "3", "4", "5", "6", "7", "8", "9"}

CharAt(s, i) == IF 1 <= i /\ i <= Len(s) THEN SubSeq(s, i, i) ELSE ""

\* s[i:i+len(kw)] == kw
StartsAt(s, i, kw) ==
    /\ i >= 1
    /\ i + Len(kw) - 1 <= Len(s)
    /\ SubSeq(s, i, i + Len(kw) - 1) = kw

\* Python: kw in s
Occurs(kw, s) == \E i \in 1..(Len(s) - Len(kw) + 1) : StartsAt(s, i, kw)

\* first position at or after i whose character is not in set (Len(s)+1 if none)
SkipWhile(s, i, set) ==
    CHOOSE j \in i..(Len(s) + 1) :
        /\ \A k \in i..(j - 1) : CharAt(s, k) \in set
        /\ j = Len(s) + 1 \/ CharAt(s, j) \notin set

LowerChar(c) ==
    CASE c = "A" -> "a" [] c = "B" -> "b" [] c = "C" -> "c" [] c = "D" -> "d"
      [] c = "E" -> "e" [] c = "F" -> "f" [] c = "G" -> "g" [] c = "H" -> "h"
      [] c = "I" -> "i" [] c = "J" -> "j" [] c = "K" -> "k" [] c = "L" -> "l"
      [] c = "M" -> "m" [] c = "N" -> "n" [] c = "O" -> "o" [] c = "P" -> "p"
      [] c = "Q" -> "q" [] c = "R" -> "r" [] c = "S" -> "s" [] c = "T" -> "t"
      [] c = "U" -> "u" [] c = "V" -> "v" [] c = "W" -> "w" [] c = "X" -> "x"
      [] c = "Y" -> "y" [] c = "Z" -> "z" [] OTHER -> c

RECURSIVE Lower(_)
\* Python: s.lower()
Lower(s) == IF s = "" THEN "" ELSE LowerChar(Head(s)) \o Lower(Tail(s))

\* Python: s.strip()
Strip(s) ==
    LET a == SkipWhile(s, 1, Whitespace)
        b == CHOOSE j \in 0..Len(s) :
                 /\ \A k \in (j + 1)..Len(s) : CharAt(s, k) \in Whitespace
                 /\ j = 0 \/ CharAt(s, j) \notin Whitespace
    IN  IF a > b THEN "" ELSE SubSeq(s, a, b)

(***************************************************************************)
(* The substring tests and the lower-casing of the utterances are pure     *)
(* functions of the text; their values on the utterances above are         *)
(* tabulated once.                                                         *)
(***************************************************************************)
Keywords == {
    "open", "launch", "start", "search", "google", "play", "note", "write",
    "remind", "reminder", "volume", "brightness", "wifi", "bluetooth",
    "folder", "directory", "time", "date", "day",
    "chrome", "google chrome", "browser", "firefox", "mozilla", "edge",
    "microsoft edge", "notepad", "text editor", "calculator", "calc", "paint",
    "mspaint", "explorer", "file explorer", "files", "cmd", "command prompt",
    "terminal", "youtube", "gmail", "email", "mail", "spotify", "music",
    "discord", "vscode", "visual studio code", "code", "word", "microsoft word",
    "excel", "microsoft excel", "powerpoint", "ppt",
    "delete", "remove", "cancel", "clear", "clear all", "delete all", "show",
    "read", "list", "display", "view", "up", "increase", "down", "decrease",
    "mute", "documents", "downloads", "desktop" }

LowerStripTable ==
    [u \in Utterances \cup NoteUtterances \cup WhenPhrases \cup ParsePhrases |->
        Strip(Lower(u))]

\* Python: s.lower().strip()
LowerStrip(s) == IF s \in DOMAIN LowerStripTable THEN LowerStripTable[s] ELSE Strip(Lower(s))

LowerTexts == {LowerStripTable[u] : u \in Utterances \cup NoteUtterances}

OccursTable == [s \in LowerTexts |-> {kw \in Keywords : Occurs(kw, s)}]

\* the value of the text function F at text, from its table where it has one
Tabulated(F(_), table, text) == IF text \in DOMAIN table THEN table[text] ELSE F(text)

\* Python: kw in s
Contains(kw, s) ==
    IF kw \in Keywords /\ s \in LowerTexts THEN kw \in OccursTable[s] ELSE Occurs(kw, s)

RECURSIVE Replace(_, _, _)
\* Python: s.replace(old, new), old non-empty
Replace(s, old, new) ==
    IF s = "" THEN ""
    ELSE IF StartsAt(s, 1, old)
         THEN new \o Replace(SubSeq(s, Len(old) + 1, Len(s)), old, new)
         ELSE Head(s) \o Replace(Tail(s), old, new)

DigitVal(c) ==
    CASE c = "0" -> 0 [] c = "1" -> 1 [] c = "2" -> 2 [] c = "3" -> 3
      [] c = "4" -> 4 [] c = "5" -> 5 [] c = "6" -> 6 [] c = "7" -> 7
      [] c = "8" -> 8 [] c = "9" -> 9

RECURSIVE ToInt(_)
\* Python: int(s) for a string of decimal digits
ToInt(s) ==
    IF s = "" THEN 0
    ELSE 10 * ToInt(SubSeq(s, 1, Len(s) - 1)) + DigitVal(CharAt(s, Len(s)))

DigitChar(d) ==
    CASE d = 0 -> "0" [] d = 1 -> "1" [] d = 2 -> "2" [] d = 3 -> "3"
      [] d = 4 -> "4" [] d = 5 -> "5" [] d = 6 -> "6" [] d = 7 -> "7"
      [] d = 8 -> "8" [] d = 9 -> "9"

RECURSIVE ToStr(_)
\* Python: f"{n}" for a non-negative int
ToStr(n) == IF n < 10 THEN DigitChar(n) ELSE ToStr(n \div 10) \o DigitChar(n % 10)

(***************************************************************************)
(* datetime arithmetic on whole seconds.                                   *)
(***************************************************************************)
SecondsPerMinute == 60
SecondsPerHour == 3600
SecondsPerDay == 86400
None == -1

\* datetime.replace(hour=h, minute=m, second=0, microsecond=0);
\* None stands for the ValueError of an hour or minute out of range
ReplaceTime(t, h, m) ==
    IF h > 23 \/ m > 59 THEN None
    ELSE (t \div SecondsPerDay) * SecondsPerDay + h * SecondsPerHour + m * SecondsPerMinute

\* the last day of datetime: 31 December 9999, counted from day 0
LastDay == 2912807

\* now + timedelta(<unit>s=amount); None stands for the OverflowError of a
\* result after datetime.max
PlusDelta(now, amount, unit_seconds) ==
    LET per_day == SecondsPerDay \div unit_seconds
        late == (now % SecondsPerDay) + (amount % per_day) * unit_seconds
        day == (now \div SecondsPerDay) + (amount \div per_day) + (late \div SecondsPerDay)
    IN  IF day > LastDay THEN None ELSE now + amount * unit_seconds

\* datetime.weekday()
Weekday(t) == (Day0.weekday + (t \div SecondsPerDay)) % 7

(***************************************************************************)
(* ReminderNotifier._parse_time                                            *)
(***************************************************************************)
Units == <<"second", "minute", "hour", "day">>

\* a unit table in which a minute lasts an hour
UnitSecondsLongMinute(unit) ==
    IF unit = "second" THEN 1 ELSE IF unit = "day" THEN SecondsPerDay ELSE SecondsPerHour

UnitSeconds(unit) ==
    CASE unit = "second" -> 1
      [] unit = "minute" -> SecondsPerMinute
      [] unit = "hour" -> SecondsPerHour
      [] unit = "day" -> SecondsPerDay

\* re.match of  in\s+(\d+)\s*(second|minute|hour|day)s?  at position i
RelativeMatchAt(s, i) ==
    LET a == i + 2
        b == SkipWhile(s, a, Whitespace)
        c == SkipWhile(s, b, Digits)
        d == SkipWhile(s, c, Whitespace)
        us == {k \in 1..Len(Units) : StartsAt(s, d, Units[k])}
    IN  IF StartsAt(s, i, "in") /\ b > a /\ c > b /\ us # {}
        THEN [matched |-> TRUE, amount |-> ToInt(SubSeq(s, b, c - 1)),
              unit |-> Units[CHOOSE k \in us : \A l \in us : k <= l]]
        ELSE [matched |-> FALSE]

\* re.search: the match at the leftmost position that has one
RelativeSearch(s) ==
    LET ps == {i \in 1..Len(s) : RelativeMatchAt(s, i).matched}
    IN  IF ps = {} THEN [matched |-> FALSE]
        ELSE RelativeMatchAt(s, CHOOSE i \in ps : \A j \in ps : i <= j)

\* re.match of  at\s+(\d{1,2})(?::(\d{2}))?\s*(am|pm)?  at position i
ClockMatchAt(s, i) ==
    LET a == i + 2
        b == SkipWhile(s, a, Whitespace)
        c == IF CharAt(s, b + 1) \in Digits THEN b + 2 ELSE b + 1
        hasMin == /\ CharAt(s, c) = ":"
                  /\ CharAt(s, c + 1) \in Digits
                  /\ CharAt(s, c + 2) \in Digits
        d == IF hasMin THEN c + 3 ELSE c
        e == SkipWhile(s, d, Whitespace)
    IN  IF StartsAt(s, i, "at") /\ b > a /\ CharAt(s, b) \in Digits
        THEN [matched |-> TRUE,
              hour |-> ToInt(SubSeq(s, b, c - 1)),
              minute |-> IF hasMin THEN ToInt(SubSeq(s, c + 1, c + 2)) ELSE 0,
              am_pm |-> IF StartsAt(s, e, "am") THEN "am"
                        ELSE IF StartsAt(s, e, "pm") THEN "pm" ELSE ""]
        ELSE [matched |-> FALSE]

ClockSearch(s) ==
    LET ps == {i \in 1..Len(s) : ClockMatchAt(s, i).matched}
    IN  IF ps = {} THEN [matched |-> FALSE]
        ELSE ClockMatchAt(s, CHOOSE i \in ps : \A j \in ps : i <= j)

WhenTexts == {LowerStripTable[w] : w \in WhenPhrases \cup ParsePhrases}
RelativeTable == [w \in WhenTexts |-> RelativeSearch(w)]
ClockTable == [w \in WhenTexts |-> ClockSearch(w)]

\* the conversion without its exception for noon
Hour24NoonAdded(hour, am_pm) ==
    IF am_pm = "pm" THEN hour + 12
    ELSE IF am_pm = "am" /\ hour = 12 THEN 0
    ELSE hour

\* "Convert to 24-hour format"
Hour24(hour, am_pm) ==
    IF am_pm = "pm" /\ hour # 12 THEN hour + 12
    ELSE IF am_pm = "am" /\ hour = 12 THEN 0
    ELSE hour

DayNames == <<"monday", "tuesday", "wednesday", "thursday", "friday", "saturday", "sunday">>

\* days until the named weekday; "Target day has passed this week" adds 7
DaysAhead(day_num, current_day) ==
    IF day_num - current_day <= 0
    THEN day_num - current_day + 7
    ELSE day_num - current_day

\* _parse_time(when) with datetime.now() = now
_parse_time(when, now) ==
    LET Resolve(when_lower, rel, clk, names) ==
            IF rel.matched
            THEN PlusDelta(now, rel.amount, UnitSeconds(rel.unit))
            ELSE IF clk.matched
            THEN LET target == ReplaceTime(now, Hour24(clk.hour, clk.am_pm), clk.minute)
                 IN  IF target = None THEN None
                     ELSE IF target <= now THEN target + SecondsPerDay
                     ELSE target
            ELSE IF Contains("tomorrow", when_lower)
            THEN LET tomorrow == now + SecondsPerDay
                 IN  IF clk.matched
                     THEN ReplaceTime(tomorrow, Hour24(clk.hour, clk.am_pm), clk.minute)
                     ELSE tomorrow
            ELSE IF names # {}
            THEN LET k == CHOOSE n \in names : \A m \in names : n <= m
                     target_date == now + DaysAhead(k - 1, Weekday(now)) * SecondsPerDay
                 IN  IF clk.matched
                     THEN ReplaceTime(target_date, Hour24(clk.hour, clk.am_pm), clk.minute)
                     ELSE target_date
            ELSE None
        Parse(when_lower) ==
            Resolve(when_lower,
                    Tabulated(RelativeSearch, RelativeTable, when_lower),
                    Tabulated(ClockSearch, ClockTable, when_lower),
                    {k \in 1..Len(DayNames) : Contains(DayNames[k], when_lower)})
    IN  Parse(LowerStrip(when))

(***************************************************************************)
(* State.                                                                  *)
(*                                                                         *)
(* ReminderNotifier: the reminder dicts live in heap (a dict is named by   *)
(* its index; two dicts never compare equal because their 'created'        *)
(* stamps differ), active_reminders is the list bound to                   *)
(* self.active_reminders, threads holds every monitor thread ever created  *)
(* with its position in _monitor_loop and its locals.  A list iterator     *)
(* keeps the list object it was created on: once clear_all has rebound     *)
(* self.active_reminders the iterator is detached and old_list is the      *)
(* list object it still walks.                                             *)
(***************************************************************************)
VARIABLES
    clock,                \* seconds elapsed since the run began
    heap,                 \* reminder dicts ever created by add_reminder
    active_reminders,     \* self.active_reminders: sequence of heap indices
    is_running,           \* self.is_running
    monitor_thread,       \* self.monitor_thread: 0 is None, else index in threads
    on_reminder_trigger,  \* self.on_reminder_trigger is set
    threads,              \* monitor threads: pc and locals of _monitor_loop
    caller,               \* the foreground caller: "idle" or "join" (inside stop)
    join_deadline,        \* clock value at which join(timeout=2) gives up
    stop_returned,        \* stop() has returned and start() was not called since
    marks,                \* per reminder: number of _trigger_reminder calls
    callbacks             \* per reminder: number of on_reminder_trigger calls

notifierVars == <<clock, heap, active_reminders, is_running, monitor_thread,
                  on_reminder_trigger, threads, caller, join_deadline,
                  stop_returned, marks, callbacks>>

\* AutomationHandler: its two collections, their backing files, and the
\* outcome of the last detect_and_execute call
VARIABLES
    notes,            \* self.notes
    reminders,        \* self.reminders
    notes_file,       \* ~/pipoo_notes.json
    reminders_file,   \* ~/pipoo_reminders.json
    last_text,        \* the utterance of the last detect_and_execute call
    is_command,       \* first component of its return value
    response,         \* second component of its return value
    ran,              \* the extractors that call ran, in order
    launched,         \* what that call opened (URL, application, folder)
    outcome,          \* how the last operation ended: "constructed" (__init__
                      \* returned), "returned" or "raised" (detect_and_execute),
                      \* "killed" (the process ended during the operation);
                      \* "none" when no handler exists
    persisted_notes,      \* the list written by the last completed _save_notes
    persisted_reminders   \* the list written by the last completed _save_reminders

handlerVars == <<notes, reminders, notes_file, reminders_file, last_text,
                 is_command, response, ran, launched, outcome,
                 persisted_notes, persisted_reminders>>

\* GeminiAPI: one query at a time, with the position inside query()
VARIABLES
    gemini_pc,             \* "idle" (no query running), "post" (about to call
                           \* requests.post), "sleep" (in time.sleep before a
                           \* retry), "raised" (query() left by an exception)
    prompt,                \* the prompt of the running or last query
    retry_count,           \* the retry_count argument of the running call
    attempts,              \* requests.post calls made for this query
    wait_time,             \* seconds slept before the attempt that comes next
    upstream,              \* what the last requests.post came back with
    gemini_result,         \* the value query() returned: <<>> none, <<s>> string s
    conversation_history,  \* self.conversation_history
    request_count          \* self.request_count

geminiVars == <<gemini_pc, prompt, retry_count, attempts, wait_time, upstream,
                gemini_result, conversation_history, request_count>>

\* The time parser called on its own: a phrase, the reference time it is
\* parsed at, and what _parse_time returned
VARIABLES
    parse_when,    \* the when argument of the last _parse_time call
    reference,     \* datetime.now() inside that call
    parsed,        \* its return value (None, or a point in time)
    restated       \* what AutomationHandler._parse_reminder_time returns for
                   \* the same phrase at the same time (<<>> is None)

parserVars == <<parse_when, reference, parsed, restated>>

\* PipooAssistant (src/src/main.py): the turn that _process_voice_input is
\* working on, and what that turn has handed to its collaborators so far
VARIABLES
    turn_pc,       \* "ready" (no turn running), "routing" (the utterance is
                   \* shown, the router not yet asked), "thinking" (inside
                   \* self.gemini.query)
    user_input,    \* what self.voice.listen returned for the turn
    shown,         \* the self.ui.add_message calls of the turn: <<role, text>>
    spoken,        \* the self.voice.speak calls of the turn
    recorded,      \* the self.state.add_message calls of the turn
    lm_calls       \* the self.gemini.query calls of the turn

turnVars == <<turn_pc, user_input, shown, spoken, recorded, lm_calls>>

\* PipooAssistant and its window: the two buttons, the animation, and the
\* threads that handle_speak_button and VoiceHandler.speak start
VARIABLES
    tts_engine,     \* self.voice.tts_engine is not None
    speak_button,   \* the speak button is tk.NORMAL
    stop_button,    \* the stop button is tk.NORMAL
    animation,      \* the last self.ui.start_animation
    processing,     \* the _process_voice_input threads that have not
                    \* finished: "listen" (inside self.voice.listen) or
                    \* "query" (inside self.gemini.query)
    speaking        \* the _speak threads that have not finished

buttonVars == <<tts_engine, speak_button, stop_button, animation, processing,
                speaking>>

vars == <<notifierVars, handlerVars, geminiVars, parserVars, turnVars, buttonVars>>

\* what an operation of one component leaves alone
besidesNotifier == <<handlerVars, geminiVars, parserVars, turnVars, buttonVars>>
besidesHandler == <<notifierVars, geminiVars, parserVars, turnVars, buttonVars>>
besidesGemini == <<notifierVars, handlerVars, parserVars, turnVars, buttonVars>>
besidesParser == <<notifierVars, handlerVars, geminiVars, turnVars, buttonVars>>
besidesButtons == <<notifierVars, handlerVars, geminiVars, parserVars, turnVars>>

\* datetime.now()
Now == StartTime + clock

JoinTimeout == 2
PollInterval == 1
Tolerance == 2

InitNotifier ==
    /\ clock = 0
    /\ heap = <<>>
    /\ active_reminders = <<>>
    /\ is_running = FALSE
    /\ monitor_thread = 0
    /\ on_reminder_trigger = FALSE
    /\ threads = <<>>
    /\ caller = "idle"
    /\ join_deadline = 0
    /\ stop_returned = FALSE
    /\ marks = <<>>
    /\ callbacks = <<>>
    /\ parse_when = ""
    /\ reference = StartTime
    /\ parsed = None
    /\ restated = <<>>
    /\ turn_pc = "ready"
    /\ user_input = ""
    /\ shown = <<>>
    /\ spoken = <<>>
    /\ recorded = <<>>
    /\ lm_calls = 0
    /\ speak_button = TRUE
    /\ stop_button = FALSE
    /\ animation = "idle"
    /\ processing = <<>>
    /\ speaking = 0

\* pyttsx3.init() succeeded in VoiceHandler._init_tts
InitVoice == tts_engine = TRUE

\* a thread between two scans: its locals hold nothing that is read again
Resting(pc, wake) == [pc |-> pc, now |-> 0, detached |-> FALSE, old_list |-> <<>>,
                      idx |-> 0, cur |-> 0, wake |-> wake]

Alive(t) == threads[t].pc # "dead"

\* the two time.sleep(1) of _monitor_loop: after a scan, and in the except
\* handler
SleepPcs == {"sleep", "except"}

\* positions of _monitor_loop at which the for loop's iterator exists
ScanPcs == {"for", "trigger", "in_callback"}
Scanning(t) == threads[t].pc \in ScanPcs
ScanInProgress == \E t \in 1..Len(threads) : Scanning(t)

(***************************************************************************)
(* Foreground operations of ReminderNotifier.                              *)
(***************************************************************************)
\* notifier.on_reminder_trigger = reminder_callback
SetCallback ==
    /\ caller = "idle"
    /\ ~on_reminder_trigger
    /\ on_reminder_trigger' = TRUE
    /\ UNCHANGED besidesNotifier
    /\ UNCHANGED <<clock, heap, active_reminders, is_running, monitor_thread,
                   threads, caller, join_deadline, stop_returned, marks,
                   callbacks>>

\* start()
start ==
    /\ caller = "idle"
    /\ IF ~is_running
       THEN /\ Len(threads) < MaxThreads
            /\ is_running' = TRUE
            /\ threads' = Append(threads, Resting("while", 0))
            /\ monitor_thread' = Len(threads) + 1
            /\ stop_returned' = FALSE
       ELSE UNCHANGED <<is_running, threads, monitor_thread, stop_returned>>
    /\ UNCHANGED besidesNotifier
    /\ UNCHANGED <<clock, heap, active_reminders, on_reminder_trigger, caller,
                   join_deadline, marks, callbacks>>

\* stop(): clears the flag and enters join(timeout=2), or returns at once
\* when there is no thread to join or the thread has already finished
stop ==
    /\ caller = "idle"
    /\ is_running' = FALSE
    /\ IF monitor_thread # 0 /\ Alive(monitor_thread)
       THEN /\ caller' = "join"
            /\ join_deadline' = clock + JoinTimeout
            /\ UNCHANGED stop_returned
       ELSE /\ stop_returned' = TRUE
            /\ UNCHANGED <<caller, join_deadline>>
    /\ UNCHANGED besidesNotifier
    /\ UNCHANGED <<clock, heap, active_reminders, monitor_thread,
                   on_reminder_trigger, threads, marks, callbacks>>

\* join(timeout=2) returns: the thread finished, or the timeout elapsed
StopReturn ==
    /\ caller = "join"
    /\ ~Alive(monitor_thread) \/ clock >= join_deadline
    /\ caller' = "idle"
    /\ join_deadline' = 0
    /\ stop_returned' = TRUE
    /\ UNCHANGED besidesNotifier
    /\ UNCHANGED <<clock, heap, active_reminders, is_running, monitor_thread,
                   on_reminder_trigger, threads, marks, callbacks>>

\* the (success, message, trigger_time) that add_reminder returns at time now
add_reminder_result(content, when, now) ==
    LET Outcome(trigger_time) ==
            IF trigger_time = None
            THEN [success |-> FALSE, trigger_time |-> None,
                  message |-> "Couldn't understand the time '" \o when
                              \o "'. Try 'in 5 minutes' or 'at 8 PM'"]
            ELSE IF trigger_time <= now
            THEN [success |-> FALSE, trigger_time |-> None,
                  message |-> "That time is in the past! Please set a future time."]
            ELSE [success |-> TRUE, trigger_time |-> trigger_time,
                  message |-> "Reminder set! I'll remind you " \o when \o "."]
    IN  Outcome(_parse_time(when, now))

\* add_reminder(content, when)
add_reminder(content, when) ==
    \E result \in {add_reminder_result(content, when, Now)} :
        /\ caller = "idle"
        /\ IF result.success
           THEN /\ Len(heap) < MaxReminders
                /\ heap' = Append(heap, [content |-> content, when |-> when,
                                         trigger_time |-> result.trigger_time,
                                         triggered |-> FALSE, created |-> Now])
                /\ active_reminders' = Append(active_reminders, Len(heap) + 1)
                /\ marks' = Append(marks, 0)
                /\ callbacks' = Append(callbacks, 0)
           ELSE UNCHANGED <<heap, active_reminders, marks, callbacks>>
        /\ UNCHANGED besidesNotifier
        /\ UNCHANGED <<clock, is_running, monitor_thread, on_reminder_trigger,
                       threads, caller, join_deadline, stop_returned>>

\* get_active_reminders()
get_active_reminders == SelectSeq(active_reminders, LAMBDA r : ~heap[r].triggered)

\* list.remove(x): delete the first occurrence
RemoveFirst(list, x) ==
    LET k == CHOOSE i \in 1..Len(list) :
                 list[i] = x /\ \A j \in 1..(i - 1) : list[j] # x
    IN  SubSeq(list, 1, k - 1) \o SubSeq(list, k + 1, Len(list))

\* remove_reminder(index): the list object is changed in place, so the
\* iterators on it see the shorter list
remove_reminder(index) ==
    /\ caller = "idle"
    /\ IF 0 <= index /\ index < Len(get_active_reminders)
       THEN active_reminders' =
                RemoveFirst(active_reminders, get_active_reminders[index + 1])
       ELSE UNCHANGED active_reminders
    /\ UNCHANGED besidesNotifier
    /\ UNCHANGED <<clock, heap, is_running, monitor_thread, on_reminder_trigger,
                   threads, caller, join_deadline, stop_returned, marks,
                   callbacks>>

\* clear_all(): binds a new empty list; iterators keep the old list object
clear_all ==
    /\ caller = "idle"
    /\ active_reminders' = <<>>
    /\ threads' = [t \in 1..Len(threads) |->
                     IF Scanning(t) /\ ~threads[t].detached
                     THEN [threads[t] EXCEPT !.detached = TRUE,
                                             !.old_list = active_reminders]
                     ELSE threads[t]]
    /\ UNCHANGED besidesNotifier
    /\ UNCHANGED <<clock, heap, is_running, monitor_thread, on_reminder_trigger,
                   caller, join_deadline, stop_returned, marks, callbacks>>

(***************************************************************************)
(* _monitor_loop and _trigger_reminder, one step per action.               *)
(***************************************************************************)
\* the list object the for loop of thread t iterates over
IterList(t) == IF threads[t].detached THEN threads[t].old_list ELSE active_reminders

\* a due test whose window is one second wider than the code's
IsDueWider(now, trigger_time) == now >= trigger_time \/ trigger_time - now <= Tolerance + 1

\* "Check if it's time to trigger (within 2 seconds tolerance)"
IsDue(now, trigger_time) == now >= trigger_time \/ trigger_time - now <= Tolerance

LoopVarsUnchanged == UNCHANGED <<clock, active_reminders, is_running,
                                 monitor_thread, on_reminder_trigger, caller,
                                 join_deadline, stop_returned, besidesNotifier>>

\* while self.is_running: now = datetime.now(); for ... in self.active_reminders
\* creates the iterator; or the loop ends and the thread finishes.  The test
\* is reached when the thread starts and each time time.sleep(1) is over.
LoopTest(t) ==
    /\ \/ threads[t].pc = "while"
       \/ threads[t].pc \in SleepPcs /\ clock >= threads[t].wake
    /\ threads' = [threads EXCEPT ![t] =
           IF is_running
           THEN [Resting("for", 0) EXCEPT !.now = Now]
           ELSE Resting("dead", 0)]
    /\ UNCHANGED <<heap, marks, callbacks>>
    /\ LoopVarsUnchanged

\* the iterator's next() and the two tests on the reminder it yields, or
\* the end of the scan and the start of time.sleep(1)
ForNext(t) ==
    LET list == IterList(t)
        idx == threads[t].idx
        Due(reminder) == /\ ~heap[reminder].triggered
                         /\ IsDue(threads[t].now, heap[reminder].trigger_time)
    IN  /\ threads[t].pc = "for"
        /\ IF idx < Len(list)
           THEN threads' = [threads EXCEPT
                    ![t].idx = idx + 1,
                    ![t].cur = IF Due(list[idx + 1]) THEN list[idx + 1] ELSE 0,
                    ![t].pc = IF Due(list[idx + 1]) THEN "trigger" ELSE "for"]
           ELSE threads' = [threads EXCEPT ![t] = Resting("sleep", clock + PollInterval)]
        /\ UNCHANGED <<heap, marks, callbacks>>
        /\ LoopVarsUnchanged

\* _trigger_reminder(reminder): reminder['triggered'] = True, then the call
\* of on_reminder_trigger if one is set
Trigger(t) ==
    /\ threads[t].pc = "trigger"
    /\ heap' = [heap EXCEPT ![threads[t].cur].triggered = TRUE]
    /\ marks' = [marks EXCEPT ![threads[t].cur] = @ + 1]
    /\ IF on_reminder_trigger
       THEN /\ callbacks' = [callbacks EXCEPT ![threads[t].cur] = @ + 1]
            /\ threads' = [threads EXCEPT ![t].pc = "in_callback"]
       ELSE /\ threads' = [threads EXCEPT ![t].pc = "for", ![t].cur = 0]
            /\ UNCHANGED callbacks
    /\ LoopVarsUnchanged

\* the callback returns, after however long it took
CallbackReturn(t) ==
    /\ threads[t].pc = "in_callback"
    /\ threads' = [threads EXCEPT ![t].pc = "for", ![t].cur = 0]
    /\ UNCHANGED <<heap, marks, callbacks>>
    /\ LoopVarsUnchanged

\* an exception that is not caught ends the thread
Uncaught(wake) == Resting("dead", 0)

\* except Exception as e: print(...); time.sleep(1)
Caught(wake) == Resting("except", wake)

\* the callback raises: the exception leaves _trigger_reminder and the for
\* loop, and the handler of _monitor_loop sleeps
CallbackRaise(t) ==
    /\ threads[t].pc = "in_callback"
    /\ threads' = [threads EXCEPT ![t] = Caught(clock + PollInterval)]
    /\ UNCHANGED <<heap, marks, callbacks>>
    /\ LoopVarsUnchanged

\* One second passes.  The statements of a scan take no measurable time and
\* time.sleep(1) does not oversleep: the clock moves only while every monitor
\* thread is inside its sleep, runs a callback or has finished.
Tick ==
    /\ clock < MaxTime
    /\ \A t \in 1..Len(threads) :
           \/ threads[t].pc \in SleepPcs /\ clock < threads[t].wake
           \/ threads[t].pc \in {"in_callback", "dead"}
    /\ clock' = clock + 1
    /\ UNCHANGED besidesNotifier
    /\ UNCHANGED <<heap, active_reminders, is_running, monitor_thread,
                   on_reminder_trigger, threads, caller, join_deadline,
                   stop_returned, marks, callbacks>>

NextNotifier ==
    \/ SetCallback
    \/ start
    \/ stop
    \/ StopReturn
    \/ \E content \in Contents, when \in WhenPhrases : add_reminder(content, when)
    \/ \E index \in 0..(MaxReminders - 1) : remove_reminder(index)
    \/ clear_all
    \/ \E t \in 1..Len(threads) : LoopTest(t)
    \/ \E t \in 1..Len(threads) : ForNext(t)
    \/ \E t \in 1..Len(threads) : Trigger(t)
    \/ \E t \in 1..Len(threads) : CallbackReturn(t)
    \/ \E t \in 1..Len(threads) : CallbackRaise(t)
    \/ Tick

TypeNotifier ==
    /\ clock \in 0..MaxTime
    /\ Len(heap) <= MaxReminders
    /\ Len(threads) <= MaxThreads
    /\ monitor_thread \in 0..Len(threads)
    /\ \A i \in 1..Len(active_reminders) : active_reminders[i] \in 1..Len(heap)

(***************************************************************************)
(* Regular expressions of automation_handler.py.  Utterances are single    *)
(* lines, so (.+) runs to the end of the text.                             *)
(***************************************************************************)
Min(S) == CHOOSE x \in S : \A y \in S : x <= y

\* s[i-1:]
Rest(s, i) == SubSeq(s, i, Len(s))

NoMatch == [matched |-> FALSE]

\* position after an optional group (?:a|b|...)? at i that is followed by
\* (.+): the first alternative that leaves at least one character is taken
OptSkip(s, i, alts) ==
    LET m == {k \in 1..Len(alts) : StartsAt(s, i, alts[k]) /\ i + Len(alts[k]) <= Len(s)}
    IN  IF m = {} THEN i ELSE i + Len(alts[Min(m)])

\* re.search of  <prefix>(?:o1|...)?(?:p1|...)?(.+)
SearchPrefixRest(s, prefix, opts1, opts2) ==
    LET ps == {i \in 1..Len(s) : StartsAt(s, i, prefix) /\ i + Len(prefix) <= Len(s)}
    IN  IF ps = {} THEN NoMatch
        ELSE [matched |-> TRUE,
              group1 |-> Rest(s, OptSkip(s, OptSkip(s, Min(ps) + Len(prefix), opts1), opts2))]

\* re.search of  <prefix>(?:number )?(\d+)
SearchPrefixNumber(s, prefix) ==
    LET from(i) == IF StartsAt(s, i + Len(prefix), "number ")
                   THEN i + Len(prefix) + Len("number ")
                   ELSE i + Len(prefix)
        ps == {i \in 1..Len(s) : StartsAt(s, i, prefix) /\ CharAt(s, from(i)) \in Digits}
    IN  IF ps = {} THEN NoMatch
        ELSE [matched |-> TRUE,
              group1 |-> SubSeq(s, from(Min(ps)),
                                SkipWhile(s, from(Min(ps)), Digits) - 1)]

OrdinalSuffixes == <<"st", "nd", "rd", "th">>

\* re.search of  delete (?:the )?(\d+)(?:st|nd|rd|th)? note
SearchDeleteOrdinal(s) ==
    LET from(i) == IF StartsAt(s, i + Len("delete "), "the ")
                   THEN i + Len("delete the ")
                   ELSE i + Len("delete ")
        upto(i) == SkipWhile(s, from(i), Digits)
        tail(i) == IF \E k \in 1..Len(OrdinalSuffixes) : StartsAt(s, upto(i), OrdinalSuffixes[k])
                   THEN upto(i) + 2 ELSE upto(i)
        ps == {i \in 1..Len(s) : /\ StartsAt(s, i, "delete ")
                                 /\ upto(i) > from(i)
                                 /\ StartsAt(s, tail(i), " note")}
    IN  IF ps = {} THEN NoMatch
        ELSE [matched |-> TRUE, group1 |-> SubSeq(s, from(Min(ps)), upto(Min(ps)) - 1)]

NoteVerbs == <<"create", "make", "write", "take", "add", "save">>
NoteArticles == <<"a ", "an ", "new ">>
NoteLeads == <<"saying ", "that says ", "about ">>

\* re.search of
\*   (?:create|make|write|take|add|save) (?:a |an |new )?note (?:saying |that says |about )?(.+)
SearchCreateNote(s) ==
    LET afterVerb(i) ==
            LET vs == {k \in 1..Len(NoteVerbs) : StartsAt(s, i, NoteVerbs[k] \o " ")}
            IN  IF vs = {} THEN 0 ELSE i + Len(NoteVerbs[Min(vs)]) + 1
        afterNote(i) ==
            LET j == afterVerb(i)
                as == {k \in 1..Len(NoteArticles) :
                          StartsAt(s, j, NoteArticles[k] \o "note ")}
            IN  IF j = 0 THEN 0
                ELSE IF as # {} THEN j + Len(NoteArticles[Min(as)]) + Len("note ")
                ELSE IF StartsAt(s, j, "note ") THEN j + Len("note ")
                ELSE 0
        ps == {i \in 1..Len(s) : afterNote(i) # 0 /\ afterNote(i) <= Len(s)}
    IN  IF ps = {} THEN NoMatch
        ELSE [matched |-> TRUE, group1 |-> Rest(s, OptSkip(s, afterNote(Min(ps)), NoteLeads))]

Separators == <<"in", "at", "on">>

\* (.+?) (?:in|at|on) (.+) from position c: the shortest first group; 0 if none.
\* The value is the position of the space that ends the first group.
LazySplit(s, c) ==
    LET es == {e \in (c + 1)..Len(s) :
                  /\ CharAt(s, e) = " "
                  /\ \E k \in 1..Len(Separators) : StartsAt(s, e + 1, Separators[k] \o " ")
                  /\ e + 4 <= Len(s)}
    IN  IF es = {} THEN 0 ELSE Min(es)

\* the content starts tried at a position, in the order the regex tries
\* them, for optional groups that were (TRUE) or were not (FALSE) present
SplitFrom(s, starts) ==
    LET ok == {k \in 1..Len(starts) : starts[k] # 0 /\ LazySplit(s, starts[k]) # 0}
    IN  IF ok = {} THEN NoMatch
        ELSE LET c == starts[Min(ok)]
                 e == LazySplit(s, c)
             IN  [matched |-> TRUE, group1 |-> SubSeq(s, c, e - 1),
                  group2 |-> Rest(s, e + 4)]

ReminderHeads == <<"remind me ", "set a reminder ", "set reminder ", "reminder ">>

\* re.match at i of
\*   (?:remind me|set (?:a )?reminder|reminder) (?:to )?(.+?) (?:in|at|on) (.+)
CreateReminder1At(s, i) ==
    LET hs == {k \in 1..Len(ReminderHeads) : StartsAt(s, i, ReminderHeads[k])}
        p == IF hs = {} THEN 0 ELSE i + Len(ReminderHeads[Min(hs)])
    IN  IF p = 0 THEN NoMatch
        ELSE SplitFrom(s, <<IF StartsAt(s, p, "to ") THEN p + 3 ELSE 0, p>>)

\* re.match at i of
\*   (?:remind|reminder) (?:me )?(?:to )?(.+?) (?:in|at|on) (.+)
CreateReminder2At(s, i) ==
    LET p == IF StartsAt(s, i, "remind ") THEN i + Len("remind ")
             ELSE IF StartsAt(s, i, "reminder ") THEN i + Len("reminder ")
             ELSE 0
        me == IF p # 0 /\ StartsAt(s, p, "me ") THEN p + 3 ELSE 0
        to(q) == IF q # 0 /\ StartsAt(s, q, "to ") THEN q + 3 ELSE 0
    IN  IF p = 0 THEN NoMatch
        ELSE SplitFrom(s, <<to(me), me, to(p), p>>)

SearchCreateReminder1(s) ==
    LET ps == {i \in 1..Len(s) : CreateReminder1At(s, i).matched}
    IN  IF ps = {} THEN NoMatch ELSE CreateReminder1At(s, Min(ps))

SearchCreateReminder2(s) ==
    LET ps == {i \in 1..Len(s) : CreateReminder2At(s, i).matched}
    IN  IF ps = {} THEN NoMatch ELSE CreateReminder2At(s, Min(ps))

\* re.search of  play (.+?) on youtube   (site = "youtube") and the like
SearchPlayOn(s, site) ==
    LET tail == " on " \o site
        end(i) == {e \in (i + Len("play ") + 1)..Len(s) : StartsAt(s, e, tail)}
        ps == {i \in 1..Len(s) : StartsAt(s, i, "play ") /\ end(i) # {}}
    IN  IF ps = {} THEN NoMatch
        ELSE [matched |-> TRUE,
              group1 |-> SubSeq(s, Min(ps) + Len("play "), Min(end(Min(ps))) - 1)]

\* re.search of  (\d+)\s*<unit>
SearchNumberUnit(s, unit) ==
    LET upto(i) == SkipWhile(s, i, Digits)
        ps == {i \in 1..Len(s) :
                  /\ CharAt(s, i) \in Digits
                  /\ StartsAt(s, SkipWhile(s, upto(i), Whitespace), unit)}
    IN  IF ps = {} THEN NoMatch
        ELSE [matched |-> TRUE, group1 |-> SubSeq(s, Min(ps), upto(Min(ps)) - 1)]

(***************************************************************************)
(* strftime / strptime on the time line (all dates fall in January 2025).  *)
(***************************************************************************)
Pad2(n) == IF n < 10 THEN "0" \o ToStr(n) ELSE ToStr(n)

HourOf(t) == (t % SecondsPerDay) \div SecondsPerHour
MinuteOf(t) == (t % SecondsPerHour) \div SecondsPerMinute
SecondOf(t) == t % SecondsPerMinute
DayOfMonth(t) == Day0.day + (t \div SecondsPerDay)

WeekdayNames == <<"Monday", "Tuesday", "Wednesday", "Thursday", "Friday",
                  "Saturday", "Sunday">>

\* %I:%M %p
ClockText(t) ==
    Pad2(IF HourOf(t) % 12 = 0 THEN 12 ELSE HourOf(t) % 12) \o ":" \o Pad2(MinuteOf(t))
        \o " " \o (IF HourOf(t) < 12 THEN "AM" ELSE "PM")

\* %b %d
DateText(t) == "Jan " \o Pad2(DayOfMonth(t))

\* strftime('%Y-%m-%d %H:%M:%S')
FormatStamp(t) ==
    ToStr(Day0.year) \o "-" \o Pad2(Day0.month) \o "-" \o Pad2(DayOfMonth(t)) \o " "
        \o Pad2(HourOf(t)) \o ":" \o Pad2(MinuteOf(t)) \o ":" \o Pad2(SecondOf(t))

\* strptime(stamp, '%Y-%m-%d %H:%M:%S')
ParseStamp(stamp) ==
    (ToInt(SubSeq(stamp, 9, 10)) - Day0.day) * SecondsPerDay
        + ToInt(SubSeq(stamp, 12, 13)) * SecondsPerHour
        + ToInt(SubSeq(stamp, 15, 16)) * SecondsPerMinute
        + ToInt(SubSeq(stamp, 18, 19))

\* strptime(...).strftime('%b %d, %I:%M %p')
ShowStamp(stamp) == DateText(ParseStamp(stamp)) \o ", " \o ClockText(ParseStamp(stamp))

\* s.rstrip(): the show texts start with an emoji, so strip() only trims the end
RStrip(s) ==
    LET b == CHOOSE j \in 0..Len(s) :
                 /\ \A k \in (j + 1)..Len(s) : CharAt(s, k) \in Whitespace
                 /\ j = 0 \/ CharAt(s, j) \notin Whitespace
    IN  SubSeq(s, 1, b)

(***************************************************************************)
(* AutomationHandler: the values of the extractors.                        *)
(***************************************************************************)
MaxNotes == 3         \* notes kept in the store
MaxStored == 1        \* reminders kept in the store

\* the value of an extractor: its return pair and what it did to the handler
Result(matched, text, new_notes, new_reminders, opened) ==
    [matched |-> matched, response |-> text, notes |-> new_notes,
     reminders |-> new_reminders, save_notes |-> FALSE,
     save_reminders |-> FALSE, launched |-> opened]

\* return False, ""
Unmatched == Result(FALSE, "", notes, reminders, "")

\* return True, text   with the handler's state untouched
Reply(text) == Result(TRUE, text, notes, reminders, "")

(***************************************************************************)
(* _handle_open_command / _open_application                                *)
(***************************************************************************)
Apps == <<
    [name |-> "chrome",     keywords |-> <<"chrome", "google chrome", "browser">>],
    [name |-> "firefox",    keywords |-> <<"firefox", "mozilla">>],
    [name |-> "edge",       keywords |-> <<"edge", "microsoft edge">>],
    [name |-> "notepad",    keywords |-> <<"notepad", "text editor">>],
    [name |-> "calculator", keywords |-> <<"calculator", "calc">>],
    [name |-> "paint",      keywords |-> <<"paint", "mspaint">>],
    [name |-> "explorer",   keywords |-> <<"explorer", "file explorer", "files">>],
    [name |-> "cmd",        keywords |-> <<"cmd", "command prompt", "terminal">>],
    [name |-> "youtube",    keywords |-> <<"youtube">>],
    [name |-> "gmail",      keywords |-> <<"gmail", "email", "mail">>],
    [name |-> "spotify",    keywords |-> <<"spotify", "music">>],
    [name |-> "discord",    keywords |-> <<"discord">>],
    [name |-> "vscode",     keywords |-> <<"vscode", "visual studio code", "code">>],
    [name |-> "word",       keywords |-> <<"word", "microsoft word">>],
    [name |-> "excel",      keywords |-> <<"excel", "microsoft excel">>],
    [name |-> "powerpoint", keywords |-> <<"powerpoint", "ppt">>] >>

\* any(keyword in text for keyword in keywords)
AnyIn(keywords, text) == \E k \in 1..Len(keywords) : Contains(keywords[k], text)

OpenMessages == [
    youtube |-> " Opening YouTube for you!", gmail |-> " Opening Gmail!",
    chrome |-> " Opening Chrome browser!", firefox |-> " Opening Firefox!",
    notepad |-> " Opening Notepad!", calculator |-> " Opening Calculator!",
    explorer |-> " Opening File Explorer!", cmd |-> " Opening Terminal!",
    paint |-> " Opening Paint!", spotify |-> " Opening Spotify!",
    vscode |-> " Opening VS Code!"]

\* _open_application(app_name); launch_ok is FALSE when the launch raises
_open_application(app_name, launch_ok) ==
    IF app_name \notin DOMAIN OpenMessages
    THEN [success |-> FALSE, launched |-> "",
          message |-> "I don't know how to open " \o app_name \o " yet."]
    ELSE IF ~launch_ok
    THEN [success |-> FALSE, launched |-> "",
          message |-> " Couldn't open " \o app_name \o ". Make sure it's installed!"]
    ELSE [success |-> TRUE, launched |-> app_name, message |-> OpenMessages[app_name]]

_handle_open_command(text, launch_ok) ==
    LET hits == {k \in 1..Len(Apps) : AnyIn(Apps[k].keywords, text)}
    IN  IF hits = {} THEN Unmatched
        ELSE LET opened == _open_application(Apps[Min(hits)].name, launch_ok)
             IN  Result(TRUE, opened.message, notes, reminders, opened.launched)

(***************************************************************************)
(* _handle_search_command, _handle_play_command                            *)
(***************************************************************************)
\* the first search pattern that matches
SearchPatterns(text) ==
    LET m1 == SearchPrefixRest(text, "search ", <<"for ", "about ">>, <<>>)
        m2 == SearchPrefixRest(text, "google ", <<>>, <<>>)
        m3 == SearchPrefixRest(text, "look up ", <<>>, <<>>)
    IN  IF m1.matched THEN m1 ELSE IF m2.matched THEN m2
        ELSE IF m3.matched THEN m3 ELSE SearchPrefixRest(text, "find ", <<>>, <<>>)

SearchTable == [t \in LowerTexts |-> SearchPatterns(t)]

_handle_search_command(text) ==
    LET m == Tabulated(SearchPatterns, SearchTable, text)
    IN  IF ~m.matched THEN Unmatched
        ELSE LET query == Strip(Replace(Replace(m.group1, " on google", ""),
                                        " on the internet", ""))
             IN  Result(TRUE, " Searching for '" \o query \o "' on Google!",
                        notes, reminders,
                        "https://www.google.com/search?q=" \o Replace(query, " ", "+"))

\* the first play pattern that matches, and platform_choice
PlayPatterns(text) ==
    LET y == SearchPlayOn(text, "youtube")
        sp == SearchPlayOn(text, "spotify")
        any == SearchPrefixRest(text, "play ", <<>>, <<>>)
    IN  IF y.matched THEN y @@ [platform_choice |-> "youtube"]
        ELSE IF sp.matched THEN sp @@ [platform_choice |-> "spotify"]
        ELSE any @@ [platform_choice |-> "youtube"]

PlayTable == [t \in LowerTexts |-> PlayPatterns(t)]

_handle_play_command(text) ==
    LET m == Tabulated(PlayPatterns, PlayTable, text)
    IN  IF ~m.matched THEN Unmatched
        ELSE IF m.platform_choice = "youtube"
        THEN Result(TRUE, " Searching for '" \o m.group1 \o "' on YouTube!", notes, reminders,
                    "https://www.youtube.com/results?search_query="
                        \o Replace(m.group1, " ", "+"))
        ELSE Result(TRUE, " Searching for '" \o m.group1 \o "' on Spotify!", notes, reminders,
                    "https://open.spotify.com/search/" \o Replace(m.group1, " ", "%20"))

(***************************************************************************)
(* _handle_note_command                                                    *)
(***************************************************************************)
\* list.pop(index) leaves this list
PopAt(list, index) == SubSeq(list, 1, index) \o SubSeq(list, index + 2, Len(list))

\* a deletion that takes the spoken number for the list index
DeleteNumberedFromZero(list, num) == PopAt(list, num)

\* self.notes.pop(note_num - 1)
DeleteNumbered(list, num) == PopAt(list, num - 1)

\* 1 <= num <= len(list)
InRange(num, list) == 1 <= num /\ num <= Len(list)

RECURSIVE NoteLines(_, _)
\* the numbered lines of the show text for list[i..]
NoteLines(list, i) ==
    IF i > Len(list) THEN ""
    ELSE ToStr(i) \o ". " \o list[i].content \o "\n    " \o ShowStamp(list[i].timestamp)
             \o "\n\n" \o NoteLines(list, i + 1)

ShowNotesText(list) ==
    RStrip(" Your Notes (" \o ToStr(Len(list)) \o " total):\n\n" \o NoteLines(list, 1))

\* the first delete pattern that matches
NoteDeletePatterns(text) ==
    LET m1 == SearchPrefixNumber(text, "delete note ")
        m2 == SearchPrefixNumber(text, "remove note ")
    IN  IF m1.matched THEN m1 ELSE IF m2.matched THEN m2 ELSE SearchDeleteOrdinal(text)

\* the first creation pattern that matches
NoteCreatePatterns(text) ==
    LET m1 == SearchCreateNote(text)
        m2 == SearchPrefixRest(text, "note ", <<"down ">>, <<"that ">>)
        m3 == SearchPrefixRest(text, "remember ", <<"that ">>, <<>>)
    IN  IF m1.matched THEN m1 ELSE IF m2.matched THEN m2 ELSE IF m3.matched THEN m3
        ELSE SearchPrefixRest(text, "write ", <<"down ">>, <<>>)

NoteDeleteTable == [t \in LowerTexts |-> NoteDeletePatterns(t)]
NoteCreateTable == [t \in LowerTexts |-> NoteCreatePatterns(t)]

\* content = match.group(1).strip() with ' please' and ' thanks' removed
CleanContent(group) == Replace(Replace(Strip(group), " please", ""), " thanks", "")

\* an acceptance test that lets contents of three characters through
ContentAcceptedFromThree(content) == Len(content) >= 3

\* if content and len(content) > 3
ContentAccepted(content) == Len(content) > 3

\* the note dict built from content
NewNote(content) ==
    [content |-> content, timestamp |-> FormatStamp(Now), id |-> Len(notes) + 1]

\* a creation that appends and saves before it looks at the length
CreateNoteUnchecked(content) ==
    [Result(ContentAccepted(content),
            IF ContentAccepted(content)
            THEN " Note saved! You now have " \o ToStr(Len(notes) + 1)
                     \o " note(s).\n '" \o content \o "'"
            ELSE "",
            Append(notes, NewNote(content)), reminders, "")
        EXCEPT !.save_notes = TRUE]

\* if content and len(content) > 3: append, save, return True, ...
\* return False, ""
CreateNote(content) ==
    IF ContentAccepted(content)
    THEN [Result(TRUE, " Note saved! You now have " \o ToStr(Len(notes) + 1)
                           \o " note(s).\n '" \o content \o "'",
                 Append(notes, NewNote(content)), reminders, "")
             EXCEPT !.save_notes = TRUE]
    ELSE Unmatched

\* a test for clear-all that never holds
AsksToClearNever(text) == FALSE

\* if 'clear' in text or 'delete all' in text:
AsksToClear(text) == Contains("clear", text) \/ Contains("delete all", text)

_handle_note_command(text) ==
    LET Delete(note_num) ==
            IF InRange(note_num, notes)
            THEN [Result(TRUE, " Deleted note: '" \o notes[note_num].content \o "'",
                         DeleteNumbered(notes, note_num), reminders, "")
                     EXCEPT !.save_notes = TRUE]
            ELSE Reply(" Note " \o ToStr(note_num) \o " doesn't exist. You have "
                           \o ToStr(Len(notes)) \o " notes.")
        Handle(del, made) ==
            IF (Contains("delete", text) \/ Contains("remove", text)) /\ del.matched
            THEN Delete(ToInt(del.group1))
            ELSE IF AsksToClear(text)
            THEN IF notes # <<>>
                 THEN [Result(TRUE, " Cleared all " \o ToStr(Len(notes)) \o " notes!",
                              <<>>, reminders, "")
                          EXCEPT !.save_notes = TRUE]
                 ELSE Reply(" You don't have any notes to clear.")
            ELSE IF \/ Contains("show", text) \/ Contains("read", text)
                    \/ Contains("list", text) \/ Contains("display", text)
            THEN IF notes = <<>>
                 THEN Reply(" You don't have any notes yet! Say 'create a note' to make one.")
                 ELSE Reply(ShowNotesText(notes))
            ELSE IF made.matched
            THEN CreateNote(CleanContent(made.group1))
            ELSE Unmatched
    IN  Handle(Tabulated(NoteDeletePatterns, NoteDeleteTable, text),
               Tabulated(NoteCreatePatterns, NoteCreateTable, text))

(***************************************************************************)
(* _handle_reminder_command, _parse_reminder_time                          *)
(***************************************************************************)
\* Optional[str]: <<>> is None, <<s>> is the string s
NoText == <<>>

\* _parse_reminder_time(when) with datetime.now() = now
_parse_reminder_time(when, now) ==
    LET when_lower == Lower(when)
        minutes == SearchNumberUnit(when_lower, "minute")
        hours == SearchNumberUnit(when_lower, "hour")
        days == SearchNumberUnit(when_lower, "day")
        \* future_time = datetime.now() + timedelta(...); its OverflowError is
        \* swallowed by the bare except
        Later(amount, unit_seconds, Say(_)) ==
            IF PlusDelta(now, amount, unit_seconds) = None THEN NoText
            ELSE <<Say(now + amount * unit_seconds)>>
        Today(future_time) == ClockText(future_time) \o " today"
        OnDate(future_time) == DateText(future_time) \o " at " \o ClockText(future_time)
    IN  IF Contains("minute", when_lower)
        THEN IF minutes.matched
             THEN Later(ToInt(minutes.group1), SecondsPerMinute, Today)
             ELSE NoText
        ELSE IF Contains("hour", when_lower)
        THEN IF hours.matched
             THEN Later(ToInt(hours.group1), SecondsPerHour, Today)
             ELSE NoText
        ELSE IF Contains("day", when_lower)
        THEN IF days.matched
             THEN Later(ToInt(days.group1), SecondsPerDay, OnDate)
             ELSE NoText
        ELSE IF Contains("tomorrow", when_lower)
        THEN <<DateText(now + SecondsPerDay) \o " (tomorrow)">>
        ELSE IF \E k \in 1..Len(DayNames) : Contains(DayNames[k], when_lower)
        THEN <<when>>
        ELSE NoText

RECURSIVE ReminderLines(_, _)
ReminderLines(list, i) ==
    IF i > Len(list) THEN ""
    ELSE ToStr(i) \o ". " \o list[i].content \o "\n    Remind: " \o list[i].when
             \o "\n    Set: " \o ShowStamp(list[i].created) \o "\n\n"
             \o ReminderLines(list, i + 1)

ShowRemindersText(list) ==
    RStrip(" Your Reminders (" \o ToStr(Len(list)) \o " total):\n\n"
               \o ReminderLines(list, 1))

ReminderDeletePatterns(text) ==
    LET m1 == SearchPrefixNumber(text, "delete reminder ")
        m2 == SearchPrefixNumber(text, "remove reminder ")
    IN  IF m1.matched THEN m1 ELSE IF m2.matched THEN m2
        ELSE SearchPrefixNumber(text, "cancel reminder ")

ReminderCreatePatterns(text) ==
    IF SearchCreateReminder1(text).matched THEN SearchCreateReminder1(text)
    ELSE SearchCreateReminder2(text)

ReminderDeleteTable == [t \in LowerTexts |-> ReminderDeletePatterns(t)]
ReminderCreateTable == [t \in LowerTexts |-> ReminderCreatePatterns(t)]

_handle_reminder_command(text) ==
    LET Create(content, when, reminder_time) ==
            [Result(TRUE,
                    " Reminder set! You now have " \o ToStr(Len(reminders) + 1)
                        \o " reminder(s).\n '" \o content \o "' - " \o when
                        \o (IF reminder_time # NoText /\ reminder_time # <<"">>
                            THEN "\n That's " \o reminder_time[1] ELSE ""),
                    notes,
                    Append(reminders,
                           [content |-> content, when |-> when,
                            reminder_time |-> reminder_time,
                            created |-> FormatStamp(Now), id |-> Len(reminders) + 1]),
                    "")
                EXCEPT !.save_reminders = TRUE]
        CreateAt(content, when) == Create(content, when, _parse_reminder_time(when, Now))
        Delete(reminder_num) ==
            IF InRange(reminder_num, reminders)
            THEN [Result(TRUE, " Deleted reminder: '"
                                   \o reminders[reminder_num].content \o "'",
                         notes, DeleteNumbered(reminders, reminder_num), "")
                     EXCEPT !.save_reminders = TRUE]
            ELSE Reply(" Reminder " \o ToStr(reminder_num) \o " doesn't exist.")
        Handle(del, made) ==
            IF /\ Contains("delete", text) \/ Contains("remove", text) \/ Contains("cancel", text)
               /\ del.matched
            THEN Delete(ToInt(del.group1))
            ELSE IF Contains("clear all", text) \/ Contains("delete all", text)
            THEN IF reminders # <<>>
                 THEN [Result(TRUE, " Cleared all " \o ToStr(Len(reminders)) \o " reminders!",
                              notes, <<>>, "")
                          EXCEPT !.save_reminders = TRUE]
                 ELSE Reply(" You don't have any reminders to clear.")
            ELSE IF \/ Contains("show", text) \/ Contains("list", text)
                    \/ Contains("display", text) \/ Contains("view", text)
            THEN IF reminders = <<>>
                 THEN Reply(" You don't have any reminders yet! Say 'set a reminder' to create one.")
                 ELSE Reply(ShowRemindersText(reminders))
            ELSE IF made.matched
            THEN CreateAt(Replace(Replace(Strip(made.group1), " please", ""), " thanks", ""),
                          Strip(made.group2))
            ELSE Unmatched
    IN  Handle(Tabulated(ReminderDeletePatterns, ReminderDeleteTable, text),
               Tabulated(ReminderCreatePatterns, ReminderCreateTable, text))

(***************************************************************************)
(* _handle_system_command, _handle_folder_command, _handle_time_command    *)
(***************************************************************************)
_handle_system_command(text) ==
    IF Contains("volume", text) /\ (Contains("up", text) \/ Contains("increase", text))
    THEN Reply(" Volume increased! (Feature requires system integration)")
    ELSE IF Contains("volume", text) /\ (Contains("down", text) \/ Contains("decrease", text))
    THEN Reply(" Volume decreased! (Feature requires system integration)")
    ELSE IF Contains("volume", text) /\ Contains("mute", text)
    THEN Reply(" Volume muted! (Feature requires system integration)")
    ELSE Unmatched

_handle_folder_command(text) ==
    IF Contains("open", text) /\ Contains("documents", text)
    THEN Result(TRUE, " Opening Documents folder!", notes, reminders, "~/Documents")
    ELSE IF Contains("open", text) /\ Contains("downloads", text)
    THEN Result(TRUE, " Opening Downloads folder!", notes, reminders, "~/Downloads")
    ELSE IF Contains("open", text) /\ Contains("desktop", text)
    THEN Result(TRUE, " Opening Desktop!", notes, reminders, "~/Desktop")
    ELSE Unmatched

_handle_time_command(text) ==
    IF Contains("time", text)
    THEN Reply(" The current time is " \o ClockText(Now))
    ELSE IF Contains("date", text)
    THEN Reply(" Today is " \o WeekdayNames[Weekday(Now) + 1] \o ", January "
                   \o Pad2(DayOfMonth(Now)) \o ", " \o ToStr(Day0.year))
    ELSE IF Contains("day", text)
    THEN Reply(" Today is " \o WeekdayNames[Weekday(Now) + 1])
    ELSE Unmatched

(***************************************************************************)
(* detect_and_execute                                                      *)
(***************************************************************************)
Ran(name, result) == result @@ [ran |-> <<name>>]

\* a dispatcher that goes on to the later categories when the extractor of
\* the first matching category returns unmatched
detect_and_execute_falling(utterance, launch_ok) ==
    LET text_lower == LowerStrip(utterance)
        Then(first, later) ==
            IF first.matched THEN first
            ELSE [later EXCEPT !.ran = first.ran \o later.ran]
        Nothing == Unmatched @@ [ran |-> <<>>]
        Time == IF AnyIn(<<"time", "date", "day">>, text_lower)
                THEN Ran("time", _handle_time_command(text_lower)) ELSE Nothing
        Folder == IF Contains("folder", text_lower) \/ Contains("directory", text_lower)
                  THEN Then(Ran("folder", _handle_folder_command(text_lower)), Time)
                  ELSE Time
        System == IF AnyIn(<<"volume", "brightness", "wifi", "bluetooth">>, text_lower)
                  THEN Then(Ran("system", _handle_system_command(text_lower)), Folder)
                  ELSE Folder
        Reminder == IF Contains("remind", text_lower) \/ Contains("reminder", text_lower)
                    THEN Then(Ran("reminder", _handle_reminder_command(text_lower)), System)
                    ELSE System
        Note == IF Contains("note", text_lower) \/ Contains("write", text_lower)
                THEN Then(Ran("note", _handle_note_command(text_lower)), Reminder)
                ELSE Reminder
        Play == IF Contains("play", text_lower)
                THEN Then(Ran("play", _handle_play_command(text_lower)), Note)
                ELSE Note
        Search == IF Contains("search", text_lower) \/ Contains("google", text_lower)
                  THEN Then(Ran("search", _handle_search_command(text_lower)), Play)
                  ELSE Play
    IN  IF AnyIn(<<"open", "launch", "start">>, text_lower)
        THEN Then(Ran("open", _handle_open_command(text_lower, launch_ok)), Search)
        ELSE Search

detect_and_execute(utterance, launch_ok) ==
    LET text_lower == LowerStrip(utterance)
    IN  IF AnyIn(<<"open", "launch", "start">>, text_lower)
        THEN Ran("open", _handle_open_command(text_lower, launch_ok))
        ELSE IF Contains("search", text_lower) \/ Contains("google", text_lower)
        THEN Ran("search", _handle_search_command(text_lower))
        ELSE IF Contains("play", text_lower)
        THEN Ran("play", _handle_play_command(text_lower))
        ELSE IF Contains("note", text_lower) \/ Contains("write", text_lower)
        THEN Ran("note", _handle_note_command(text_lower))
        ELSE IF Contains("remind", text_lower) \/ Contains("reminder", text_lower)
        THEN Ran("reminder", _handle_reminder_command(text_lower))
        ELSE IF AnyIn(<<"volume", "brightness", "wifi", "bluetooth">>, text_lower)
        THEN Ran("system", _handle_system_command(text_lower))
        ELSE IF Contains("folder", text_lower) \/ Contains("directory", text_lower)
        THEN Ran("folder", _handle_folder_command(text_lower))
        ELSE IF AnyIn(<<"time", "date", "day">>, text_lower)
        THEN Ran("time", _handle_time_command(text_lower))
        ELSE Unmatched @@ [ran |-> <<>>]

(***************************************************************************)
(* GeminiAPI (src/src/gemini_api.py): query with its retries.  A response  *)
(* of the service is reduced to what query() tests: the status code, and   *)
(* for status 200 whether the payload holds a text.                        *)
(***************************************************************************)
MAX_RETRIES == 3
HistoryLimit == 50
MaxRequests == 2       \* answered queries

Prompts == {"what is the weather", "tell me a joke"}

\* what requests.post can come back with: a status code, a 200 whose payload
\* has no candidates text ("no_text") or is no JSON ("bad_json"), a 400 whose
\* body is no JSON ("400_plain"), or an exception of requests
Upstreams == {"text", "no_text", "bad_json", "429", "400", "400_plain", "403",
              "404", "500", "timeout", "connection", "error"}

\* the text that comes with an outcome: the answer, the message of the error
\* body, or str(e) of the exception
Texts(o) ==
    CASE o = "text" -> {"  Hello there! ", " "}
      [] o = "400" -> {"API key not valid. Please pass a valid API key."}
      [] o = "bad_json" -> {"Expecting value: line 1 column 1 (char 0)"}
      [] o = "error" -> {"Exceeded 30 redirects.", "Connection broken: IncompleteRead"}
      [] OTHER -> {""}

\* format_error_message(error): 'X' in error_str.upper() is tested as
\* 'x' in error_str.lower()
format_error_message(error_str) ==
    LET Pick(low) ==
            IF Occurs("api_key", low)
            THEN " API key issue. Please check your configuration."
            ELSE IF Occurs("timeout", low)
            THEN " Request timed out. Please try again."
            ELSE IF Occurs("connection", low) \/ Occurs("network", low)
            THEN " Network error. Please check your internet connection."
            ELSE IF Occurs("microphone", low)
            THEN " Microphone error. Please check your microphone."
            ELSE " Error: " \o error_str
    IN  Pick(Lower(error_str))

\* format_error_message and str.strip are pure functions of the text; their
\* values on the texts above are tabulated once
FormatTable == [t \in Texts("bad_json") \cup Texts("error") |-> format_error_message(t)]
AnswerTable == [t \in Texts("text") |-> Strip(t)]

RECURSIVE Pow2(_)
\* 2 ** k
Pow2(k) == IF k = 0 THEN 1 ELSE 2 * Pow2(k - 1)

\* a retry test that allows one retry more than the ceiling
MayRetryOnceMore(count) == count <= MAX_RETRIES

\* if retry_count < Config.MAX_RETRIES
MayRetry(count) == count < MAX_RETRIES

\* query() returns text
Return(text, count, slept) ==
    [pc |-> "idle", result |-> <<text>>, retry_count |-> count, wait_time |-> slept]

\* one pass through the body of query() after requests.post came back with
\* outcome o: the return, the sleep before a retry, or the retry at once
query_step(o, text, count, slept) ==
    CASE o = "text" -> Return(Tabulated(Strip, AnswerTable, text), count, slept)
      [] o = "no_text" ->
             Return("I'm sorry, I couldn't generate a response. Please try again.",
                    count, slept)
      [] o = "429" ->
             IF MayRetry(count)
             THEN [pc |-> "sleep", result |-> <<>>, retry_count |-> count,
                   wait_time |-> Pow2(count)]
             ELSE Return(" API rate limit exceeded. Please wait a moment and try again.",
                         count, slept)
      [] o = "400" -> Return(" Request error: " \o text, count, slept)
      [] o = "400_plain" -> Return(" Bad request. Please try again.", count, slept)
      [] o = "403" ->
             Return(" API key error. Please check your Gemini API key configuration.",
                    count, slept)
      [] o = "404" ->
             Return(" API endpoint error. Please check the API URL configuration.",
                    count, slept)
      [] o = "500" -> Return(" API error (code " \o o \o "). Please try again.", count, slept)
      [] o = "timeout" ->
             IF MayRetry(count)
             THEN [pc |-> "post", result |-> <<>>, retry_count |-> count + 1,
                   wait_time |-> 0]
             ELSE Return(" Request timed out. Please check your internet connection.",
                         count, slept)
      [] o = "connection" ->
             Return(" Cannot connect to Gemini API. Please check your internet connection.",
                    count, slept)
      [] OTHER -> Return(Tabulated(format_error_message, FormatTable, text), count, slept)

\* add_to_history(role, content) on history
add_to_history(history, role, content) ==
    LET longer == Append(history, [role |-> role, content |-> content])
    IN  IF Len(longer) > HistoryLimit
        THEN SubSeq(longer, Len(longer) - HistoryLimit + 1, Len(longer))
        ELSE longer

\* GeminiAPI.__init__ with a configured key
InitGemini ==
    /\ gemini_pc = "idle"
    /\ prompt = ""
    /\ retry_count = 0
    /\ attempts = 0
    /\ wait_time = 0
    /\ upstream = ""
    /\ gemini_result = <<>>
    /\ conversation_history = <<>>
    /\ request_count = 0

\* no GeminiAPI exists
NoGemini ==
    /\ gemini_pc = "idle"
    /\ prompt = ""
    /\ retry_count = 0
    /\ attempts = 0
    /\ wait_time = 0
    /\ upstream = ""
    /\ gemini_result = <<>>
    /\ conversation_history = <<>>
    /\ request_count = 0

\* the caller enters query(p): retry_count = 0
Entered(p) ==
    /\ gemini_pc \in {"idle", "raised"}
    /\ request_count < MaxRequests
    /\ gemini_pc' = "post"
    /\ prompt' = p
    /\ retry_count' = 0
    /\ attempts' = 0
    /\ wait_time' = 0
    /\ upstream' = ""
    /\ gemini_result' = <<>>
    /\ UNCHANGED <<conversation_history, request_count>>

\* query(p) entered on the client alone
query(p) ==
    /\ Entered(p)
    /\ UNCHANGED besidesGemini

\* requests.post comes back with outcome o and the rest of the body runs
Posted(o, text) ==
    \E step \in {query_step(o, text, retry_count, wait_time)} :
        /\ gemini_pc = "post"
        /\ attempts' = attempts + 1
        /\ upstream' = o
        /\ gemini_pc' = step.pc
        /\ gemini_result' = step.result
        /\ retry_count' = step.retry_count
        /\ wait_time' = step.wait_time
        /\ IF o = "text"
           THEN /\ conversation_history' =
                       add_to_history(add_to_history(conversation_history, "user", prompt),
                                      "assistant", step.result[1])
                /\ request_count' = request_count + 1
           ELSE UNCHANGED <<conversation_history, request_count>>
        /\ UNCHANGED prompt

\* that step on the client alone
Post(o, text) ==
    /\ Posted(o, text)
    /\ UNCHANGED besidesGemini

\* time.sleep(wait_time) is over: return self.query(prompt, use_history, retry_count + 1)
Slept ==
    /\ gemini_pc = "sleep"
    /\ gemini_pc' = "post"
    /\ retry_count' = retry_count + 1
    /\ UNCHANGED <<prompt, attempts, wait_time, upstream, gemini_result,
                   conversation_history, request_count>>

\* that step on the client alone
Backoff ==
    /\ Slept
    /\ UNCHANGED besidesGemini

NextGemini ==
    \/ \E p \in Prompts : query(p)
    \/ \E o \in Upstreams : \E text \in Texts(o) : Post(o, text)
    \/ Backoff

(***************************************************************************)
(* The handler as a state machine: construction, then one                  *)
(* detect_and_execute call per step.                                       *)
(***************************************************************************)
\* a backing file: absent, unreadable as JSON, or holding a list
Missing == [state |-> "missing", data |-> <<>>]
Corrupt == [state |-> "corrupt", data |-> <<>>]
Stored(list) == [state |-> "ok", data |-> list]

\* a load that hands on what it found in a file json.load rejects
LoadUnguarded(file) == IF file.state = "missing" THEN <<>> ELSE <<file.state>>

\* _load_notes / _load_reminders: [] unless the file exists and json.load
\* accepts it (the bare except catches whatever open or json.load raises)
Load(file) == IF file.state = "ok" THEN file.data ELSE <<>>

\* _save_notes / _save_reminders: json.dump of the whole list
Save(list) == Stored(list)

\* what a backing file may hold when the handler is constructed
OldNote == [content |-> "feed the cat", timestamp |-> FormatStamp(StartTime), id |-> 1]
OldReminder == [content |-> "call dentist", when |-> "2 hours",
                reminder_time |-> <<"12:00 PM today">>,
                created |-> FormatStamp(StartTime), id |-> 1]

\* AutomationHandler.__init__
InitHandler ==
    /\ notes_file \in {Missing, Corrupt, Stored(<<OldNote>>)}
    /\ reminders_file \in {Missing, Stored(<<OldReminder>>)}
    /\ notes = Load(notes_file)
    /\ reminders = Load(reminders_file)
    /\ last_text = ""
    /\ is_command = FALSE
    /\ response = ""
    /\ ran = <<>>
    /\ launched = ""
    /\ outcome = "constructed"
    /\ persisted_notes = Load(notes_file)
    /\ persisted_reminders = Load(reminders_file)

\* no AutomationHandler exists (the notifier run on its own)
NoHandler ==
    /\ notes_file = Missing
    /\ reminders_file = Missing
    /\ notes = <<>>
    /\ reminders = <<>>
    /\ last_text = ""
    /\ is_command = FALSE
    /\ response = ""
    /\ ran = <<>>
    /\ launched = ""
    /\ outcome = "none"
    /\ persisted_notes = <<>>
    /\ persisted_reminders = <<>>

\* is_command, response = detect_and_execute(utterance): what the call does
\* to the handler
Executed(utterance, launch_ok) ==
    \E result \in {detect_and_execute(utterance, launch_ok)} :
        /\ Len(result.notes) <= MaxNotes
        /\ Len(result.reminders) <= MaxStored
        /\ notes' = result.notes
        /\ reminders' = result.reminders
        /\ notes_file' = IF result.save_notes THEN Save(result.notes) ELSE notes_file
        /\ reminders_file' = IF result.save_reminders THEN Save(result.reminders)
                             ELSE reminders_file
        /\ last_text' = utterance
        /\ is_command' = result.matched
        /\ response' = result.response
        /\ ran' = result.ran
        /\ launched' = result.launched
        /\ outcome' = "returned"
        /\ persisted_notes' = IF result.save_notes THEN result.notes ELSE persisted_notes
        /\ persisted_reminders' = IF result.save_reminders THEN result.reminders
                                  ELSE persisted_reminders

\* detect_and_execute(utterance) called on the handler alone
DetectAndExecute(utterance, launch_ok) ==
    /\ Executed(utterance, launch_ok)
    /\ UNCHANGED besidesHandler

\* an application is started only when the utterance names one; only then can
\* subprocess.Popen / webbrowser.open raise
NamesApp == [u \in Utterances |->
                \E k \in 1..Len(Apps) : AnyIn(Apps[k].keywords, LowerStrip(u))]

NextHandler ==
    \E utterance \in Utterances :
        \E launch_ok \in (IF NamesApp[utterance] THEN BOOLEAN ELSE {TRUE}) :
            DetectAndExecute(utterance, launch_ok)

\* the assistant after construction: the handler loaded, no notifier started
InitAssistant == InitHandler /\ InitNotifier /\ InitGemini /\ InitVoice

SpecHandler == InitAssistant /\ [][NextHandler]_vars

\* the handler given the utterances of the note category only
NextNotes == \E utterance \in NoteUtterances : DetectAndExecute(utterance, TRUE)

SpecNotes == InitAssistant /\ [][NextNotes]_vars

TypeHandler ==
    /\ Len(notes) <= MaxNotes
    /\ Len(reminders) <= MaxStored
    /\ is_command \in BOOLEAN

(***************************************************************************)
(* Failing writes.  _save_notes and _save_reminders open the file with     *)
(* mode 'w', which empties it, and json.dump then writes it piece by       *)
(* piece: a write that stops part-way leaves a file that json.load         *)
(* rejects.  The write stops because it raises (the exception leaves       *)
(* detect_and_execute, which has no handler for it) or because the         *)
(* process ends; the assistant is then constructed again.                  *)
(***************************************************************************)
\* detect_and_execute(utterance) whose save stops part-way: what the call
\* does to the handler
SaveStopped(utterance, raised) ==
    \E result \in {detect_and_execute(utterance, TRUE)} :
        /\ outcome # "killed"
        /\ result.save_notes \/ result.save_reminders
        /\ Len(result.notes) <= MaxNotes
        /\ Len(result.reminders) <= MaxStored
        /\ notes' = result.notes
        /\ reminders' = result.reminders
        /\ notes_file' = IF result.save_notes THEN Corrupt ELSE notes_file
        /\ reminders_file' = IF result.save_reminders THEN Corrupt ELSE reminders_file
        /\ last_text' = utterance
        /\ ran' = result.ran
        /\ launched' = result.launched
        /\ outcome' = IF raised THEN "raised" ELSE "killed"
        /\ UNCHANGED <<is_command, response, persisted_notes, persisted_reminders>>

\* that call on the handler alone
SaveFails(utterance, raised) ==
    /\ SaveStopped(utterance, raised)
    /\ UNCHANGED besidesHandler

\* AutomationHandler(): a new handler loads both files
Construct ==
    /\ notes' = Load(notes_file)
    /\ reminders' = Load(reminders_file)
    /\ last_text' = ""
    /\ is_command' = FALSE
    /\ response' = ""
    /\ ran' = <<>>
    /\ launched' = ""
    /\ outcome' = "constructed"
    /\ UNCHANGED <<notes_file, reminders_file, persisted_notes, persisted_reminders>>
    /\ UNCHANGED besidesHandler

\* the utterances said while writes may fail: those that save, and two that
\* only read
StorageUtterances == {
    "create a note saying buy milk", "clear notes", "show my notes",
    "remind me to call dentist in 2 hours", "delete reminder 1",
    "show my reminders" }

\* a handler whose process is running takes the next utterance
Serve ==
    /\ outcome # "killed"
    /\ \E utterance \in StorageUtterances : DetectAndExecute(utterance, TRUE)

NextStorage ==
    \/ Serve
    \/ \E utterance \in StorageUtterances, raised \in BOOLEAN :
           SaveFails(utterance, raised)
    \/ Construct

SpecStorage == InitAssistant /\ [][NextStorage]_vars

(***************************************************************************)
(* The notifier run on its own, as in the test program at the end of       *)
(* reminder_notifier.py.                                                   *)
(***************************************************************************)
InitAlone == InitNotifier /\ NoHandler /\ NoGemini /\ InitVoice

SpecNotifier == InitAlone /\ [][NextNotifier]_vars

\* The notifier once it is started and never stopped, as the assistant runs
\* it.  The scheduler lets every thread run: a thread that can take its next
\* step takes it, a callback ends, and time passes.
NextMonitoring ==
    \/ SetCallback
    \/ start
    \/ \E content \in Contents, when \in WhenPhrases : add_reminder(content, when)
    \/ \E index \in 0..(MaxReminders - 1) : remove_reminder(index)
    \/ clear_all
    \/ \E t \in 1..Len(threads) : LoopTest(t)
    \/ \E t \in 1..Len(threads) : ForNext(t)
    \/ \E t \in 1..Len(threads) : Trigger(t)
    \/ \E t \in 1..Len(threads) : CallbackReturn(t)
    \/ \E t \in 1..Len(threads) : CallbackRaise(t)
    \/ Tick

SpecMonitoringFair ==
    /\ InitAlone
    /\ [][NextMonitoring]_vars
    /\ WF_vars(\E t \in 1..Len(threads) : LoopTest(t))
    /\ WF_vars(\E t \in 1..Len(threads) : ForNext(t))
    /\ WF_vars(\E t \in 1..Len(threads) : Trigger(t))
    /\ WF_vars(\E t \in 1..Len(threads) : CallbackReturn(t) \/ CallbackRaise(t))
    /\ WF_vars(Tick)

(***************************************************************************)
(* The language-model client on its own, as in the test program at the     *)
(* end of gemini_api.py.  requests.post always comes back (it is given     *)
(* timeout=Config.API_TIMEOUT) and time.sleep ends.                        *)
(***************************************************************************)
InitClient == InitGemini /\ InitNotifier /\ NoHandler /\ InitVoice

SpecGemini == InitClient /\ [][NextGemini]_vars

SpecGeminiFair ==
    /\ InitClient
    /\ [][NextGemini]_vars
    /\ WF_vars(\E o \in Upstreams : \E text \in Texts(o) : Post(o, text))
    /\ WF_vars(Backoff)

(***************************************************************************)
(* The time parser on its own: _parse_time is called with a phrase at a    *)
(* reference time.                                                         *)
(***************************************************************************)
\* trigger_time = self._parse_time(when) at datetime.now() = now, and the
\* handler's _parse_reminder_time(when) on the same phrase at the same time
CallParseTime(when, now) ==
    /\ parse_when' = when
    /\ reference' = now
    /\ parsed' = _parse_time(when, now)
    /\ restated' = _parse_reminder_time(when, now)
    /\ UNCHANGED besidesParser

NextParser == \E when \in ParsePhrases, now \in References : CallParseTime(when, now)

SpecParser == InitAlone /\ [][NextParser]_vars

(***************************************************************************)
(* PipooAssistant (src/src/main.py): one turn of _process_voice_input at a *)
(* time, on the thread handle_speak_button starts.  The turn asks the      *)
(* router, and the language-model client when the router has no answer;    *)
(* what it shows, speaks and records is kept per turn.                     *)
(***************************************************************************)
\* what self.voice.listen returns: None or '' when nothing was heard
TurnUtterances == {
    "volume up", "create a note saying buy milk", "what is the weather" }

\* if self.automation: (it is None when AutomationHandler() raised)
Automation == outcome # "none"

\* a test that sends every utterance on to the language model
FallsThroughAlways(matched) == TRUE

\* "Not a command, ask Gemini AI": the code after the if is_command block
FallsThrough(matched) == ~matched

NoSpeech == " No speech detected. Please try again."
CouldNotProcess == "I'm sorry, I couldn't process that. Please try again."

\* format_error_message(e) for the OSError of a write that stops part-way
SaveErrorMessage == format_error_message("[Errno 28] No space left on device")

\* PipooAssistant.__init__: the notifier is not started, the client has a
\* key, the handler was constructed or its constructor raised
InitPipoo ==
    /\ InitNotifier
    /\ InitGemini
    /\ InitVoice
    /\ InitHandler \/ NoHandler

\* handle_speak_button with voice and client present, then
\* user_input = self.voice.listen(timeout=8)
Listen(heard) ==
    /\ turn_pc = "ready"
    /\ user_input' = heard
    /\ spoken' = <<>>
    /\ recorded' = <<>>
    /\ lm_calls' = 0
    /\ IF heard = ""
       THEN /\ shown' = << <<"system", NoSpeech>> >>
            /\ turn_pc' = "ready"
       ELSE /\ shown' = << <<"user", heard>> >>
            /\ turn_pc' = "routing"
    /\ UNCHANGED <<notifierVars, handlerVars, geminiVars, parserVars, buttonVars>>

\* is_command, command_response = self.automation.detect_and_execute(user_input)
\* returns: the response is shown, recorded and spoken, or the turn enters
\* self.gemini.query(user_input)
Route(launch_ok) ==
    /\ turn_pc = "routing"
    /\ Automation
    /\ Executed(user_input, launch_ok)
    /\ IF FallsThrough(is_command')
       THEN /\ Entered(user_input)
            /\ lm_calls' = lm_calls + 1
            /\ turn_pc' = "thinking"
            /\ UNCHANGED <<shown, spoken, recorded>>
       ELSE /\ shown' = Append(shown, <<"assistant", response'>>)
            /\ recorded' = << <<"user", user_input>>, <<"assistant", response'>> >>
            /\ spoken' = <<response'>>
            /\ turn_pc' = "ready"
            /\ UNCHANGED lm_calls
            /\ UNCHANGED geminiVars
    /\ UNCHANGED user_input
    /\ UNCHANGED <<notifierVars, parserVars, buttonVars>>

\* detect_and_execute raises in its save: except Exception shows the error
RouteRaises ==
    /\ turn_pc = "routing"
    /\ Automation
    /\ SaveStopped(user_input, TRUE)
    /\ shown' = Append(shown, <<"error", SaveErrorMessage>>)
    /\ turn_pc' = "ready"
    /\ UNCHANGED <<user_input, spoken, recorded, lm_calls>>
    /\ UNCHANGED <<notifierVars, geminiVars, parserVars, buttonVars>>

\* self.automation is None: the turn goes to self.gemini.query(user_input)
Unrouted ==
    /\ turn_pc = "routing"
    /\ ~Automation
    /\ Entered(user_input)
    /\ lm_calls' = lm_calls + 1
    /\ turn_pc' = "thinking"
    /\ UNCHANGED <<user_input, shown, spoken, recorded>>
    /\ UNCHANGED <<notifierVars, handlerVars, parserVars, buttonVars>>

\* requests.post comes back inside query(); when query() returns, if response:
\* shows, speaks and records it, else the apology is shown
Answer(o, text) ==
    /\ turn_pc = "thinking"
    /\ Posted(o, text)
    /\ IF gemini_pc' # "idle"
       THEN /\ turn_pc' = "thinking"
            /\ UNCHANGED <<shown, spoken, recorded>>
       ELSE /\ turn_pc' = "ready"
            /\ IF gemini_result'[1] # ""
               THEN /\ shown' = Append(shown, <<"assistant", gemini_result'[1]>>)
                    /\ spoken' = <<gemini_result'[1]>>
                    /\ recorded' = << <<"user", user_input>>,
                                      <<"assistant", gemini_result'[1]>> >>
               ELSE /\ shown' = Append(shown, <<"error", CouldNotProcess>>)
                    /\ UNCHANGED <<spoken, recorded>>
    /\ UNCHANGED <<user_input, lm_calls>>
    /\ UNCHANGED <<notifierVars, handlerVars, parserVars, buttonVars>>

\* the sleep before a retry inside query() is over
Wait ==
    /\ turn_pc = "thinking"
    /\ Slept
    /\ UNCHANGED turnVars
    /\ UNCHANGED <<notifierVars, handlerVars, parserVars, buttonVars>>

NextPipoo ==
    \/ \E heard \in TurnUtterances \cup {""} : Listen(heard)
    \/ Route(TRUE)
    \/ RouteRaises
    \/ Unrouted
    \/ \E o \in Upstreams : \E text \in Texts(o) : Answer(o, text)
    \/ Wait

SpecPipoo == InitPipoo /\ [][NextPipoo]_vars

(***************************************************************************)
(* PipooAssistant (src/src/main.py): the speak and stop buttons.  A button *)
(* that is tk.DISABLED does not call its handler.  Voice handler and       *)
(* client exist; what listen, detect_and_execute and query come back with  *)
(* is an input.  The calls queued with self.root.after(0, ...) run at      *)
(* once.                                                                   *)
(***************************************************************************)
MaxWorkers == 3      \* threads of one kind that run at the same time

\* how self.voice.listen and detect_and_execute end a turn's first part
Hearings == {"nothing", "command", "unmatched", "raised"}
\* how self.gemini.query ends
Answers == {"response", "none", "raised"}

\* self.ui.set_buttons_enabled(True, False); self.ui.start_animation('idle')
BackToIdle ==
    /\ speak_button' = TRUE
    /\ stop_button' = FALSE
    /\ animation' = "idle"

\* self.voice.speak(text, blocking=False) with a text that is not empty:
\* nothing without an engine, else a thread that begins with on_speak_start
speak ==
    IF tts_engine
    THEN /\ speaking < MaxWorkers
         /\ speaking' = speaking + 1
         /\ animation' = "speaking"
         /\ UNCHANGED <<speak_button, stop_button>>
    ELSE UNCHANGED <<speaking, animation, speak_button, stop_button>>

\* the list without its element t
Finished(list, t) == SubSeq(list, 1, t - 1) \o SubSeq(list, t + 1, Len(list))

\* handle_speak_button: the buttons are switched and the thread is started;
\* listen() calls on_listen_start
handle_speak_button ==
    /\ speak_button
    /\ Len(processing) < MaxWorkers
    /\ speak_button' = FALSE
    /\ stop_button' = TRUE
    /\ animation' = "listening"
    /\ processing' = Append(processing, "listen")
    /\ UNCHANGED <<tts_engine, speaking>>
    /\ UNCHANGED besidesButtons

\* handle_stop_button: stop_speaking() leaves the _speak thread to end in
\* its finally block; the rest is done whatever is running
handle_stop_button ==
    /\ stop_button
    /\ BackToIdle
    /\ UNCHANGED <<tts_engine, processing, speaking>>
    /\ UNCHANGED besidesButtons

\* _process_voice_input of thread t up to its return or to gemini.query
ListenReturns(t, heard) ==
    /\ processing[t] = "listen"
    /\ CASE heard = "nothing" ->
                /\ BackToIdle
                /\ processing' = Finished(processing, t)
                /\ UNCHANGED speaking
         [] heard = "command" ->
                /\ speak
                /\ processing' = Finished(processing, t)
         [] heard = "unmatched" ->
                /\ animation' = "thinking"
                /\ processing' = [processing EXCEPT ![t] = "query"]
                /\ UNCHANGED <<speak_button, stop_button, speaking>>
         [] heard = "raised" ->
                /\ BackToIdle
                /\ processing' = Finished(processing, t)
                /\ UNCHANGED speaking
    /\ UNCHANGED tts_engine
    /\ UNCHANGED besidesButtons

\* response = self.gemini.query(user_input) of thread t and what follows
QueryReturns(t, answer) ==
    /\ processing[t] = "query"
    /\ processing' = Finished(processing, t)
    /\ IF answer = "response"
       THEN speak
       ELSE BackToIdle /\ UNCHANGED speaking
    /\ UNCHANGED tts_engine
    /\ UNCHANGED besidesButtons

\* the finally block of _speak: self.on_speak_end()
_on_speak_end ==
    /\ speaking > 0
    /\ speaking' = speaking - 1
    /\ BackToIdle
    /\ UNCHANGED <<tts_engine, processing>>
    /\ UNCHANGED besidesButtons

\* the assistant's window after start-up, with or without a speech engine
InitButtons ==
    /\ InitNotifier
    /\ NoHandler
    /\ NoGemini
    /\ tts_engine \in BOOLEAN

NextButtons ==
    \/ handle_speak_button
    \/ handle_stop_button
    \/ \E t \in 1..Len(processing), heard \in Hearings : ListenReturns(t, heard)
    \/ \E t \in 1..Len(processing), answer \in Answers : QueryReturns(t, answer)
    \/ _on_speak_end

SpecButtons == InitButtons /\ [][NextButtons]_vars

\* listen (timeout=8) and query (bounded retries) return, speech ends; the
\* user is not obliged to press a button
SpecButtonsFair ==
    /\ InitButtons
    /\ [][NextButtons]_vars
    /\ WF_vars(\E t \in 1..Len(processing), heard \in Hearings : ListenReturns(t, heard))
    /\ WF_vars(\E t \in 1..Len(processing), answer \in Answers : QueryReturns(t, answer))
    /\ WF_vars(_on_speak_end)

(***************************************************************************)
(* Properties of the reminder notifier (SpecNotifier).                     *)
(***************************************************************************)
\* C1: across every interleaving of start, stop, add_reminder and the scans,
\* each reminder is marked triggered at most once, its triggered flag stays
\* true once it was marked, and its callback is invoked at most once.
C1_TriggeredOnce ==
    \A r \in 1..Len(heap) :
        /\ marks[r] <= 1
        /\ callbacks[r] <= 1
        /\ marks[r] >= 1 => heap[r].triggered

\* C2 as stated: the loop never marks a reminder triggered (and so never
\* calls its callback) while the current time is before its trigger_time.
C2_NeverBeforeTriggerTime ==
    [][\A r \in 1..Len(heap) :
           marks'[r] > marks[r] => Now >= heap[r].trigger_time]_vars

\* C2 amended: the loop never marks a reminder triggered while the current
\* time is more than Tolerance (2) seconds before its trigger_time.
C2_NeverBeforeTolerance ==
    [][\A r \in 1..Len(heap) :
           marks'[r] > marks[r] => heap[r].trigger_time - Now <= Tolerance]_vars

\* a reminder has been triggered and its trigger_time is still ahead
C2_FiredEarly ==
    \E r \in 1..Len(heap) : marks[r] >= 1 /\ Now < heap[r].trigger_time

\* C3: once stop() has returned, no reminder is marked triggered and no
\* callback is invoked (until a later start()).
C3_QuietAfterStop ==
    [][stop_returned =>
           \A r \in 1..Len(heap) :
               marks'[r] = marks[r] /\ callbacks'[r] = callbacks[r]]_vars

\* C4: the list bound to self.active_reminders is never changed (append,
\* remove, rebinding by clear_all) while a scan of the loop is in progress.
C4_NoMutationDuringScan ==
    [][active_reminders' # active_reminders => ~ScanInProgress]_vars

(***************************************************************************)
(* Properties of the automation handler (SpecHandler).                     *)
(***************************************************************************)
\* C5: no reminder record, in the handler's store or in the notifier's
\* active set, has a null trigger time: a time phrase that cannot be resolved
\* creates nothing.
C5_NoNullTriggerTime ==
    /\ \A i \in 1..Len(reminders) : reminders[i].reminder_time # NoText
    /\ \A i \in 1..Len(active_reminders) :
           heap[active_reminders[i]].trigger_time # None

\* C6: a detect_and_execute call that appends a reminder to the store also
\* places one in the notifier's active set.
C6_CreatedIsScheduled ==
    [][Len(reminders') > Len(reminders)
           => Len(active_reminders') > Len(active_reminders)]_vars

\* the trigger keywords of the categories, in the order of the dispatch
Categories == <<
    [name |-> "open",     triggers |-> <<"open", "launch", "start">>],
    [name |-> "search",   triggers |-> <<"search", "google">>],
    [name |-> "play",     triggers |-> <<"play">>],
    [name |-> "note",     triggers |-> <<"note", "write">>],
    [name |-> "reminder", triggers |-> <<"remind", "reminder">>],
    [name |-> "system",   triggers |-> <<"volume", "brightness", "wifi", "bluetooth">>],
    [name |-> "folder",   triggers |-> <<"folder", "directory">>],
    [name |-> "time",     triggers |-> <<"time", "date", "day">>] >>

\* the categories with a trigger keyword in the lower-cased trimmed utterance
Triggered(utterance) ==
    {k \in 1..Len(Categories) :
        \E j \in 1..Len(Categories[k].triggers) :
            Occurs(Categories[k].triggers[j], Strip(Lower(utterance)))}

TriggeredBy == [u \in Utterances |-> Triggered(u)]

\* C7: the only extractor that runs for an utterance is that of the first
\* category, in the order open, search, play, note, reminder, system, folder,
\* time, that has a trigger keyword in it; none runs when no category has
\* one, and no later one runs when the chosen extractor returns unmatched.
C7_FirstCategoryOnly ==
    last_text \in Utterances =>
        ran = IF TriggeredBy[last_text] = {} THEN <<>>
              ELSE <<Categories[Min(TriggeredBy[last_text])].name>>

\* an utterance with trigger keywords of two categories went to the first,
\* whose extractor returned unmatched
C7_UnmatchedNotPassedOn ==
    /\ last_text \in Utterances
    /\ Cardinality(TriggeredBy[last_text]) >= 2
    /\ ran # <<>>
    /\ ~is_command

\* C8: a call that returns matched = false returns the empty response and
\* leaves both collections and both backing files as they were.
C8_UnmatchedChangesNothing ==
    [][(last_text' \in Utterances /\ ~is_command')
           => /\ response' = ""
              /\ notes' = notes
              /\ reminders' = reminders
              /\ notes_file' = notes_file
              /\ reminders_file' = reminders_file]_vars

\* an extractor returned unmatched while both collections held records
C8_ExtractorUnmatched ==
    ran # <<>> /\ ~is_command /\ notes # <<>> /\ reminders # <<>>

\* the number asked for by the delete utterances
NoteDeletes == [u \in {"delete note 0", "delete note 1", "delete note 2",
                       "delete note 3"} |->
                   CASE u = "delete note 0" -> 0 [] u = "delete note 1" -> 1
                     [] u = "delete note 2" -> 2 [] u = "delete note 3" -> 3]
ReminderDeletes == [u \in {"delete reminder 1", "delete reminder 5"} |->
                       IF u = "delete reminder 1" THEN 1 ELSE 5]

\* list without its element at 1-based position n
Without(list, n) ==
    [i \in 1..(Len(list) - 1) |-> IF i < n THEN list[i] ELSE list[i + 1]]

\* the show text numbers the notes by their position in list
NumberedByPosition(text, list) ==
    \A i \in 1..Len(list) :
        Occurs(ToStr(i) \o ". " \o list[i].content \o "\n", text)

\* C9: 'delete note N' with 1 <= N <= n removes exactly the note at position
\* N, keeps the others in order, and saves the result; a 'show' lists the
\* notes numbered by their current position.
C9_DeleteRemovesPosition ==
    [][/\ (last_text' \in DOMAIN NoteDeletes /\ NoteDeletes[last_text'] \in 1..Len(notes))
           => /\ is_command'
              /\ notes' = Without(notes, NoteDeletes[last_text'])
              /\ notes_file' = Stored(notes')
       /\ (last_text' = "show my notes" /\ notes # <<>>)
           => /\ is_command'
              /\ notes' = notes
              /\ NumberedByPosition(response', notes)]_vars

\* position 2 of a three-note store has been deleted and saved
C9_DeletedSecondOfThree ==
    /\ last_text = "delete note 2"
    /\ is_command
    /\ Len(notes) = 2
    /\ notes[1].id = 1 /\ notes[2].id = 3
    /\ notes_file = Stored(notes)

\* C10: a delete-by-number outside 1..count, for notes and for reminders,
\* returns matched = true with a response that names the current count, and
\* leaves the collection and its backing file unchanged.
C10_OutOfRangeNamesCount ==
    [][/\ (last_text' \in DOMAIN NoteDeletes /\ NoteDeletes[last_text'] \notin 1..Len(notes))
           => /\ is_command'
              /\ Occurs(ToStr(Len(notes)), response')
              /\ notes' = notes /\ notes_file' = notes_file
       /\ (last_text' \in DOMAIN ReminderDeletes
              /\ ReminderDeletes[last_text'] \notin 1..Len(reminders))
           => /\ is_command'
              /\ Occurs(ToStr(Len(reminders)), response')
              /\ reminders' = reminders /\ reminders_file' = reminders_file]_vars

\* the content the creation patterns extract from the utterances that reach
\* the note-create flow (group 1, stripped, ' please' and ' thanks' removed)
NoteCreates == [u \in {"create a note saying buy milk", "add note hi",
                       "add note hey please"} |->
                   CASE u = "create a note saying buy milk" -> "buy milk"
                     [] u = "add note hi" -> "hi"
                     [] u = "add note hey please" -> "hey"]

C12_FailedSaveNotSilentlyLost ==
    [][last_text' = ""
           => \/ outcome' = "raised"
              \/ /\ notes' = persisted_notes
                 /\ reminders' = persisted_reminders]_vars

RelativePhrases ==
    [w \in {"in 1 second", "in 45 seconds", "In 5 Minutes", "in 10minutes",
            "in 2 hours", "in 1 day", "in 3 days", "in 3000000 days"} |->
        CASE w = "in 1 second" -> [n |-> 1, unit |-> 1]
          [] w = "in 45 seconds" -> [n |-> 45, unit |-> 1]
          [] w = "In 5 Minutes" -> [n |-> 5, unit |-> 60]
          [] w = "in 10minutes" -> [n |-> 10, unit |-> 60]
          [] w = "in 2 hours" -> [n |-> 2, unit |-> 3600]
          [] w = "in 1 day" -> [n |-> 1, unit |-> 86400]
          [] w = "in 3 days" -> [n |-> 3, unit |-> 86400]
          [] w = "in 3000000 days" -> [n |-> 3000000, unit |-> 86400]]

\* C14 as stated: for every relative phrase 'in N unit' with N > 0 the
\* parser returns the reference time plus N of that unit.
C14_RelativeExact ==
    parse_when \in DOMAIN RelativePhrases
        => /\ parsed # None
           /\ parsed = reference
                  + RelativePhrases[parse_when].n * RelativePhrases[parse_when].unit

\* the calendar day of reference + N days lies within datetime (year 9999)
WithinCalendar(now, phrase) ==
    phrase.unit = 86400 => (now \div 86400) + phrase.n <= LastDay

\* C14 amended: for every relative phrase 'in N unit' with N > 0 the parser
\* returns the reference time plus N of that unit when that moment is not
\* after the year 9999, and None when it is.
C14_RelativeExactWithinCalendar ==
    parse_when \in DOMAIN RelativePhrases
        => IF WithinCalendar(reference, RelativePhrases[parse_when])
           THEN parsed = reference
                    + RelativePhrases[parse_when].n * RelativePhrases[parse_when].unit
           ELSE parsed = None

\* a plural, capitalised phrase was parsed late on Wednesday
C14_FiveMinutesLate ==
    /\ parse_when = "In 5 Minutes"
    /\ reference = 86399
    /\ parsed = 86699

\* the absolute phrases 'at H[:MM] [am|pm]' that name a time of day: that
\* time of day in seconds after midnight
AbsolutePhrases ==
    [w \in {"at 9", "at 10:00", "at 10 am", "at 10:01", "at 3 pm", "at 12 am",
            "at 12:30 pm"} |->
        CASE w = "at 9" -> 9 * SecondsPerHour
          [] w = "at 10:00" -> 10 * SecondsPerHour
          [] w = "at 10 am" -> 10 * SecondsPerHour
          [] w = "at 10:01" -> 10 * SecondsPerHour + SecondsPerMinute
          [] w = "at 3 pm" -> 15 * SecondsPerHour
          [] w = "at 12 am" -> 0
          [] w = "at 12:30 pm" -> 12 * SecondsPerHour + 30 * SecondsPerMinute]

\* C15: for every absolute phrase 'at H[:MM] [am|pm]' the parser returns its
\* time of day on the day after the reference day when that time of day is
\* at or before the reference time of day, and on the reference day when it
\* is still ahead.
C15_AbsoluteRollsOneDay ==
    parse_when \in DOMAIN AbsolutePhrases
        => parsed = (reference \div SecondsPerDay) * SecondsPerDay
                        + AbsolutePhrases[parse_when]
                        + (IF AbsolutePhrases[parse_when] <= reference % SecondsPerDay
                           THEN SecondsPerDay ELSE 0)

\* 'at 10:00' was asked at 10:00:00 exactly and went to the next day
C15_SameInstantRolled ==
    /\ parse_when = "at 10:00"
    /\ reference = 10 * SecondsPerHour
    /\ parsed = SecondsPerDay + 10 * SecondsPerHour

\* the phrases that hold a weekday name: the number of that weekday
\* (monday = 0)
WeekdayPhrases ==
    [w \in {"monday", "on wednesday", "sunday", "friday at 5pm",
            "wednesday at 9 am"} |->
        CASE w = "monday" -> 0
          [] w = "on wednesday" -> 2
          [] w = "sunday" -> 6
          [] w = "friday at 5pm" -> 4
          [] w = "wednesday at 9 am" -> 2]

\* C16: for every phrase with a weekday name, with or without a clock time,
\* the parser's result falls on a date 1 to 7 days after the reference date,
\* on the named weekday, and 7 days after it when the named weekday is the
\* reference weekday.
C16_WeekdayStrictlyAhead ==
    parse_when \in DOMAIN WeekdayPhrases
        => /\ parsed # None
           /\ (parsed \div SecondsPerDay) - (reference \div SecondsPerDay) \in 1..7
           /\ Weekday(parsed) = WeekdayPhrases[parse_when]
           /\ WeekdayPhrases[parse_when] = Weekday(reference)
                  => (parsed \div SecondsPerDay) - (reference \div SecondsPerDay) = 7

(***************************************************************************)
(* Properties of the later categories and of the creation phrasings        *)
(* (SpecHandler).                                                          *)
(***************************************************************************)
\* the utterances that hold 'folder' or 'directory', ask to open it and name
\* one of the three folders: the folder they name
FolderUtterances ==
    [u \in {"open my documents folder", "Open the Downloads directory"} |->
        IF u = "open my documents folder" THEN "~/Documents" ELSE "~/Downloads"]

\* C17: an utterance that holds 'folder' or 'directory', asks to open it and
\* names documents, downloads or desktop is handled by the folder extractor:
\* the call returns matched = true with the response of that folder, which
\* it has opened.
C17_FolderOpened ==
    last_text \in DOMAIN FolderUtterances
        => /\ is_command
           /\ ran = <<"folder">>
           /\ launched = FolderUtterances[last_text]
           /\ response = (IF last_text = "open my documents folder"
                          THEN " Opening Documents folder!"
                          ELSE " Opening Downloads folder!")

\* C18: every utterance that reaches the system category (it holds volume,
\* brightness, wifi or bluetooth and no trigger keyword of an earlier
\* category) returns matched = true with an acknowledgement.
C18_SystemAcknowledged ==
    (/\ last_text \in Utterances
     /\ TriggeredBy[last_text] # {}
     /\ Categories[Min(TriggeredBy[last_text])].name = "system")
        => /\ is_command
           /\ response # ""

\* the creation phrasings with a content longer than 3 characters: the
\* content they carry, in lower case
CreationPhrasings ==
    [u \in {"create a note saying buy milk",
            "create a note saying clear the table",
            "remember that my appointment is at 3 PM"} |->
        CASE u = "create a note saying buy milk" -> "buy milk"
          [] u = "create a note saying clear the table" -> "clear the table"
          [] u = "remember that my appointment is at 3 PM"
                 -> "my appointment is at 3 pm"]

\* C19: each creation phrasing, 'remember that <content>' among them, with a
\* content longer than 3 characters is recognised as a note creation: the
\* call returns matched = true and the last note holds that content.
C19_PhrasingsCreate ==
    last_text \in DOMAIN CreationPhrasings
        => /\ is_command
           /\ notes # <<>>
           /\ notes[Len(notes)].content = CreationPhrasings[last_text]

(***************************************************************************)
(* Properties of the assistant's turn (SpecPipoo).                         *)
(***************************************************************************)
\* the router was asked in this turn and returned matched = b
Returned(b) == outcome = "returned" /\ is_command = b

\* C20 as stated: in every turn on a recognised utterance the language-model
\* client is queried if and only if detect_and_execute returned
\* matched = false; when it returned matched = true the command response
\* alone is shown and spoken.
C20_QueriedIffUnmatched ==
    (user_input # "" /\ turn_pc # "routing")
        => /\ lm_calls = 1 <=> Returned(FALSE)
           /\ lm_calls = 0 <=> ~Returned(FALSE)
           /\ Returned(TRUE)
                  => /\ shown = << <<"user", user_input>>, <<"assistant", response>> >>
                     /\ spoken = <<response>>

\* C20 amended: in an assistant whose handler was constructed the client is
\* queried if and only if detect_and_execute returned matched = false, and
\* on matched = true the command response alone is shown and spoken; in an
\* assistant without a handler every recognised utterance is sent to the
\* client.
C20_QueriedIffUnmatchedOrNoRouter ==
    (user_input # "" /\ turn_pc # "routing")
        => /\ lm_calls = 1 <=> (Returned(FALSE) \/ ~Automation)
           /\ lm_calls = 0 <=> ~(Returned(FALSE) \/ ~Automation)
           /\ Returned(TRUE)
                  => /\ shown = << <<"user", user_input>>, <<"assistant", response>> >>
                     /\ spoken = <<response>>

\* a command was answered by the router alone in a turn after one that the
\* language model had answered
C20_CommandAfterAnswer ==
    /\ turn_pc = "ready"
    /\ user_input = "create a note saying buy milk"
    /\ Returned(TRUE)
    /\ lm_calls = 0
    /\ spoken = <<response>>
    /\ conversation_history # <<>>

(***************************************************************************)
(* Further properties of the time parser (SpecParser).                     *)
(***************************************************************************)
\* the phrases that join 'tomorrow' with a clock time: that time of day in
\* seconds after midnight
TomorrowPhrases ==
    [w \in {"tomorrow at 9 am", "tomorrow at 5pm"} |->
        IF w = "tomorrow at 9 am" THEN 9 * SecondsPerHour ELSE 17 * SecondsPerHour]

\* C21: a phrase that joins 'tomorrow' with a clock time is parsed to that
\* clock time on the day after the reference date, whether the clock time
\* has passed on the reference day or is still ahead.
C21_TomorrowAtClock ==
    parse_when \in DOMAIN TomorrowPhrases
        => parsed = ((reference \div SecondsPerDay) + 1) * SecondsPerDay
                        + TomorrowPhrases[parse_when]

\* C22: the reminder flow's _parse_reminder_time and the scheduler's
\* _parse_time agree on every time clause: either both parse it or neither
\* does, and when both do, the time the handler restates is the time of day
\* of the scheduler's trigger time.
C22_OneGrammar ==
    parse_when # ""
        => /\ (parsed = None) <=> (restated = <<>>)
           /\ (parsed # None /\ restated # <<>> /\ parse_when \in DOMAIN RelativePhrases)
                  => restated[1] \in {ClockText(parsed) \o " today",
                                      DateText(parsed) \o " at " \o ClockText(parsed)}

(***************************************************************************)
(* Further properties of the reminder notifier (SpecMonitoringFair).       *)
(***************************************************************************)
\* reminder r is in the active list, not triggered, due, and the loop is on
PendingDue(r) ==
    /\ r <= Len(heap)
    /\ \E i \in 1..Len(active_reminders) : active_reminders[i] = r
    /\ ~heap[r].triggered
    /\ IsDue(Now, heap[r].trigger_time)
    /\ is_running

\* a live monitor thread sleeps until after the last second of the run
AsleepPastTheEnd ==
    \E t \in 1..Len(threads) : threads[t].pc \in SleepPcs /\ threads[t].wake > MaxTime

\* C23: a callback that ends, by returning or by raising, never ends the
\* monitor thread; and every reminder that is pending and due while the loop
\* is on stops being so: it is triggered, in this scan or a later one,
\* unless it is removed or the loop is turned off first (or the run ends
\* while the loop sleeps).
C23_LoopSurvivesCallback ==
    /\ [][\A t \in 1..Len(threads) :
              threads[t].pc = "in_callback" => threads'[t].pc # "dead"]_vars
    /\ \A r \in 1..MaxReminders :
           PendingDue(r) ~> (~PendingDue(r) \/ AsleepPastTheEnd)

\* the callback of one reminder has raised while another reminder is pending
\* and due
C23_RaisedWithOtherDue ==
    \E t \in 1..Len(threads), r \in 1..Len(heap) :
        /\ threads[t].pc = "except"
        /\ PendingDue(r)
        /\ \E q \in 1..Len(heap) : q # r /\ callbacks[q] = 1

(***************************************************************************)
(* Further properties of the language-model client (SpecGemini).           *)
(***************************************************************************)
\* C24: every retry of a query, after a rate-limit response or after a
\* timeout, comes after a wait of 2^k seconds, k being the number of retries
\* made before it.
C24_EveryRetryWaits ==
    [][retry_count' > retry_count => wait_time' = Pow2(retry_count)]_vars

(***************************************************************************)
(* Properties of the note category (SpecNotes).                            *)
(***************************************************************************)
\* the sub-behaviour that decides each utterance when they are tested in the
\* order delete-by-number, clear-all, show, create
NoteDecidedBy ==
    [u \in NoteUtterances |->
        CASE u = "create a note saying buy milk" -> "create"
          [] u = "create a note saying clear the table" -> "clear"
          [] u = "add a note to read the book" -> "show"
          [] u = "delete note 1 and clear the rest" -> "delete"
          [] u = "delete all notes" -> "clear"
          [] u = "clear and show my notes" -> "clear"
          [] u = "show my notes" -> "show"]

\* C25: within the note category the sub-behaviours are tested in the order
\* delete-by-number, clear-all, show, create, and the first whose condition
\* holds decides the outcome: an utterance with a creation pattern and a
\* clear or show keyword clears or shows the notes and creates nothing.
C25_NoteOrder ==
    [][last_text' \in NoteUtterances =>
           /\ is_command'
           /\ ran' = <<"note">>
           /\ CASE NoteDecidedBy[last_text'] = "delete" ->
                       notes' = IF notes = <<>> THEN notes ELSE Tail(notes)
                [] NoteDecidedBy[last_text'] = "clear" -> notes' = <<>>
                [] NoteDecidedBy[last_text'] = "show" ->
                       /\ notes' = notes
                       /\ notes # <<>> => response' = ShowNotesText(notes)
                [] NoteDecidedBy[last_text'] = "create" ->
                       /\ Len(notes') = Len(notes) + 1
                       /\ SubSeq(notes', 1, Len(notes)) = notes]_vars

\* an utterance with a creation pattern and the word 'clear' has emptied a
\* store that held notes
C25_CreationPhraseCleared ==
    /\ last_text = "create a note saying clear the table"
    /\ is_command
    /\ notes = <<>>
    /\ notes_file = Stored(<<>>)

(***************************************************************************)
(* Cancelling a reminder (SpecMonitoringFair).                             *)
(***************************************************************************)
\* reminder r was taken out of the active list while it was pending and no
\* scan had found it due: it is in no list the foreground can reach, it is
\* not marked, and no thread holds it as the reminder to trigger
RemovedUnobserved(r) ==
    /\ r <= Len(heap)
    /\ ~heap[r].triggered
    /\ \A i \in 1..Len(active_reminders) : active_reminders[i] # r
    /\ \A t \in 1..Len(threads) : threads[t].cur # r

Invoked(r) == r <= Len(callbacks) /\ callbacks[r] > 0

\* C26: a pending reminder removed from the active set (remove_reminder or
\* clear_all) before the loop observed it as due is cancelled: after the
\* removing call has returned its callback is never invoked, also when the
\* removal happens while a scan is in progress.
C26_RemovedNeverInvoked ==
    \A r \in 1..MaxReminders : [](RemovedUnobserved(r) => [](~Invoked(r)))

(***************************************************************************)
(* Loading the stores (SpecStorage).                                       *)
(***************************************************************************)
Unreadable(file) == file \in {Missing, Corrupt}

\* C27: load of the note or reminder store never fails: when the backing
\* file is missing or its content is corrupt it returns the empty sequence,
\* and the handler starts with an empty collection instead of raising.
C27_LoadNeverFails ==
    last_text = ""
        => /\ outcome = "constructed"
           /\ Unreadable(notes_file) => notes = <<>>
           /\ Unreadable(reminders_file) => reminders = <<>>

\* a handler constructed over two files that writes had left unreadable
C27_StartedOnCorruptFiles ==
    /\ outcome = "constructed"
    /\ notes_file = Corrupt /\ notes = <<>>
    /\ reminders_file = Corrupt /\ reminders = <<>>

(***************************************************************************)
(* Monitor threads (SpecNotifier).                                         *)
(***************************************************************************)
\* the threads that are inside _monitor_loop
Executing == {t \in 1..Len(threads) : Alive(t)}

\* C28: for any sequence of start() and stop() calls at most one monitor
\* loop is executing at any time; start() while running creates no second
\* thread, and a start() after a stop() never leaves the earlier loop
\* scanning alongside the new one.
C28_OneMonitorLoop == Cardinality(Executing) <= 1

(***************************************************************************)
(* Properties of the buttons (SpecButtons, SpecButtonsFair).               *)
(***************************************************************************)
\* C29: every interaction started with the speak button eventually
\* re-enables the speak button and returns the presentation to idle, on
\* each path of the processing thread, also when text-to-speech is
\* unavailable or the response is empty.
C29_ButtonComesBack ==
    ~speak_button ~> (speak_button /\ animation = "idle")

\* C30: at most one voice-processing thread is active at any time, for
\* every sequence of speak-button and stop-button events; the stop button
\* never makes a new interaction startable while an earlier one is still
\* listening or waiting on the language model.
C30_OneProcessingThread ==
    /\ Len(processing) <= 1
    /\ speak_button => processing = <<>>

====

